---------------------------- MODULE Spec2Model ----------------------------
(***************************************************************************)
(* Model of the display/animation core of renpy.                           *)
(*                                                                         *)
(* Part 1: the state-machine animation of renpy/display/anim.py            *)
(* (State, Edge, SMAnimation).  Times are integers (ticks); a displayable  *)
(* is a sequence of strings: <<>> is Python's None, <<"ia">> an image and  *)
(* <<tr, o, n>> the displayable a transition tr composes from the images   *)
(* o and n.                                                                *)
(***************************************************************************)
EXTENDS Integers, Sequences, FiniteSets, TLC

(* ------------------------------ bounds --------------------------------- *)

\* render times st and at range over 0..MaxTime
MaxTime == 3

\* the per-call iteration counter of the catch-up loop saturates here
MaxIters == 6

(* --------------------------- null values ------------------------------- *)

\* None where a state name is expected (SMAnimation.state, line 178)
None == "None"

\* None where a time is expected (SMAnimation.edge_start, line 169)
NoTime == 0 - 1

\* None where a displayable is expected (State.image, edge_cache, child)
NoDisplayable == << >>

\* None where an Edge is expected (SMAnimation.edge, line 175)
NoEdge == [cls |-> "None", id |-> 0, old |-> None, delay |-> 0,
           new |-> None, trans |-> None, prob |-> 0]

\* no redraw request registered by the render
NoRedraw == 0 - 1

\* no exception raised
NoError == "ok"

\* the render call does not repeat the one before it
NoSnapshot == [valid |-> FALSE, edge_start |-> NoTime,
               edge_cache |-> NoDisplayable, edge |-> NoEdge, state |-> None]

(* ------------------------- State and Edge ------------------------------ *)

\* State.__init__: name, image, and whether keyword properties were given
State(name, image, properties) ==
    [cls |-> "State", name |-> name, image |-> image,
     properties |-> properties]

\* Edge.__init__ (id stands for the identity of the Python object)
Edge(id, old, delay, new, trans, prob) ==
    [cls |-> "Edge", id |-> id, old |-> old, delay |-> delay, new |-> new,
     trans |-> trans, prob |-> prob]

\* the outcome of a call that may raise
Ok(v) == [err |-> NoError, val |-> v]

\* a call that raised e while evaluating to a displayable
Raise(e) == [err |-> e, val |-> NoDisplayable]

\* State.get_image with an empty atlist: the image itself; building the
\* Position of a State with keyword properties reads the undefined name
\* `properties' and raises
get_image(s) ==
    IF s.properties THEN Raise("NameError") ELSE Ok(s.image)

\* State.motion_copy: a set image is fetched through the misspelt attribute
\* self.mage, which raises; an unset image is replaced by child.  The copy
\* is built without keyword properties.
motion_copy(s, child) ==
    IF s.image # NoDisplayable
    THEN [err |-> "AttributeError", val |-> s]
    ELSE [err |-> NoError, val |-> State(s.name, child, FALSE)]

\* state.add(sma): sma.states[self.name] = self
StateAdd(s, sma) ==
    [sma EXCEPT !.states =
        [n \in (DOMAIN sma.states) \cup {s.name} |->
            IF n = s.name THEN s ELSE sma.states[n]]]

\* mutant: the edge is appended once whatever its weight
AddCountOnce(e) == 1

\* the number of times Edge.add appends the edge
AddCount(e) == e.prob

\* edges.setdefault(old, []).append(e), n times
RECURSIVE AppendTimes(_, _, _)
AppendTimes(edges, e, n) ==
    IF n <= 0 THEN edges
    ELSE AppendTimes(
            [o \in (DOMAIN edges) \cup {e.old} |->
                IF o = e.old
                THEN Append(IF o \in DOMAIN edges THEN edges[o] ELSE << >>, e)
                ELSE edges[o]],
            e, n - 1)

\* Edge.add(sma)
EdgeAdd(e, sma) ==
    [sma EXCEPT !.edges = AppendTimes(sma.edges, e, AddCount(e))]

\* for i in args: i.add(self)
RECURSIVE AddAll(_, _)
AddAll(sma, as) ==
    IF as = << >> THEN sma
    ELSE AddAll(IF Head(as).cls = "State" THEN StateAdd(Head(as), sma)
                                          ELSE EdgeAdd(Head(as), sma),
                Tail(as))

\* the empty function, for the dicts states = { } and edges = { }
EmptyDict == [x \in {} |-> x]

\* SMAnimation.__init__: the keyword arguments delay, showold and
\* anim_timebase are taken out of properties (absent ones get the defaults
\* None, False, True), then every argument adds itself.  props is the set of
\* keyword names given; the values are passed alongside.
SMAnimationInit(init, as, props, delayv, showoldv, animv) ==
    AddAll([initial |-> init,
            delay |-> IF "delay" \in props THEN delayv ELSE NoTime,
            showold |-> IF "showold" \in props THEN showoldv ELSE FALSE,
            anim_timebase |-> IF "anim_timebase" \in props THEN animv ELSE TRUE,
            properties |-> props \ {"delay", "showold", "anim_timebase"},
            states |-> EmptyDict,
            edges |-> EmptyDict],
           as)


(* ------------------------------ inputs --------------------------------- *)

\* images
ia == <<"ia">>
ib == <<"ib">>
ic == <<"ic">>

\* Argument lists given to SMAnimation(initial, *args).  Every Edge object
\* is supplied once.  States are built with an empty atlist and without
\* keyword properties.
\*  1: the weighted pair of the specification, b is terminal
\*  2: a cycle with a transition on one edge
\*  3: a cycle of zero-delay edges with an exit to the terminal state c
\*  4: an initial state without outgoing edges
\*  5: a template with an unset image (a) and a set image (b)
\*  6: a template whose images are all unset, with two edges of different
\*     weight out of one state
\*  7: a self-loop, a zero-weight edge and an edge out of a zero-delay edge
Args(k) ==
    CASE k = 1 -> << State("a", ia, FALSE), State("b", ib, FALSE),
                     Edge(1, "a", 1, "b", None, 1),
                     Edge(2, "a", 2, "b", "dissolve", 3) >>
      [] k = 2 -> << State("a", ia, FALSE), State("b", ib, FALSE),
                     Edge(1, "a", 1, "b", "dissolve", 1),
                     Edge(2, "b", 1, "a", None, 1) >>
      [] k = 3 -> << State("a", ia, FALSE), State("b", ib, FALSE),
                     State("c", ic, FALSE),
                     Edge(1, "a", 0, "b", None, 1),
                     Edge(2, "b", 0, "a", None, 1),
                     Edge(3, "b", 1, "c", None, 1) >>
      [] k = 4 -> << State("a", ia, FALSE) >>
      [] k = 5 -> << State("a", NoDisplayable, FALSE), State("b", ib, FALSE),
                     Edge(1, "a", 1, "b", "move", 2),
                     Edge(2, "b", 1, "a", "move", 1) >>
      [] k = 6 -> << State("a", NoDisplayable, FALSE),
                     State("b", NoDisplayable, FALSE),
                     Edge(1, "a", 1, "b", "move", 1),
                     Edge(2, "b", 2, "a", "move", 2),
                     Edge(3, "a", 2, "b", None, 3) >>
      [] OTHER -> << State("a", ia, FALSE), State("b", ib, FALSE),
                     Edge(1, "a", 1, "a", None, 2),
                     Edge(2, "a", 2, "b", None, 0),
                     Edge(3, "a", 0, "b", "dissolve", 1),
                     Edge(4, "b", 3, "a", None, 1) >>

NumArgs == 7

\* render times
Times == 0 .. MaxTime

\* the substitute children a completed SMAnimation is called with
Children == { NoDisplayable, <<"child">> }
Widgets == { NoDisplayable, <<"widget">> }

(* ------------------------------ state ---------------------------------- *)

VARIABLES
    args,           \* the arguments the SMAnimation was constructed from
    initial,        \* SMAnimation.initial
    delay,          \* SMAnimation.delay
    showold,        \* SMAnimation.showold
    anim_timebase,  \* SMAnimation.anim_timebase
    properties,     \* SMAnimation.properties (names of the remaining keywords)
    states,         \* SMAnimation.states: name -> State
    edges,          \* SMAnimation.edges: name -> sequence of Edge
    edge_start,     \* SMAnimation.edge_start
    edge_cache,     \* SMAnimation.edge_cache
    edge,           \* SMAnimation.edge
    state,          \* SMAnimation.state
    st, at,         \* the time arguments of the current / latest render
    pc,             \* position in render: "idle", "loop"
    shown,          \* the displayable the latest render rendered
    redraw,         \* the delay of the redraw the latest render requested
    err,            \* the exception the latest render raised
    call_result,    \* outcome of SMAnimation.__call__: "none", "ok" or error
    call_child,     \* the substitute child of that call
    copy,           \* the SMAnimation that call returned
    first_t,        \* history: time of the render that (re)started the walk
    completed,      \* history: sum of the delays of the edges completed since
    reset_from,     \* history: the edge this call's reset found current
    was_reset,      \* history: a time regression made this call reset the walk
    iters,          \* history: iterations of the catch-up loop in this call
    loop_from,      \* history: edge_start when this call reached the loop
    before,         \* history: when this call repeats the arguments of the
                    \* call before it, the fields that call left
    composed        \* history: update_cache runs since the last edge pick

smaVars == << args, initial, delay, showold, anim_timebase, properties,
              states, edges, edge_start, edge_cache, edge, state, st, at, pc,
              shown, redraw, err, call_result, call_child, copy, first_t,
              completed, reset_from, was_reset, iters, loop_from, before,
              composed >>

(* Part 2: the time-based effect nodes and the layout containers of       *)
(* renpy/display/layout.py.  Each object lives in variables of its own;    *)
(* a specification exercises one object and leaves the others parked.      *)

VARIABLES
    motion,         \* the Motion object: its fields
    motion_out,     \* what the latest Motion.render did
    zoom,           \* the Zoom object: its fields
    zoom_out        \* what the latest Zoom.render did

VARIABLES
    cls,            \* the class of the container under test
    children,       \* Container.children
    self_child,     \* Container.child: the last child added
    attrs,          \* which of the attributes offsets and sizes exist
    offsets,        \* Container.offsets
    sizes,          \* Container.sizes
    start_times,    \* Fixed.start_times
    anim_times,     \* Fixed.anim_times
    grid,           \* Grid: cols, rows, padding and the style's fill flags
    transpose,      \* Grid.transpose
    r_out,          \* what the latest render of the container did
    ev_out,         \* what the latest event call on the container did
    added,          \* history: the children in the order they were added
    drawn,          \* history, one entry per entry of Fixed.start_times:
                    \* the times and the child (0: None) given when it was
                    \* added and the frame time of the first render that
                    \* drew its child
    gen             \* history: renders started, the render that wrote
                    \* offsets, wrote sizes, and completed last, and whether
                    \* the children changed since the latest render

boxVars == << cls, children, self_child, attrs, offsets, sizes, start_times,
              anim_times, grid, transpose, r_out, ev_out, added, drawn, gen >>

motionVars == << motion, motion_out >>

zoomVars == << zoom, zoom_out >>

\* None where a Motion delay is expected (Motion.__init__, delay=None)
NoDelay == 0 - 1

\* no Motion is under test
MotionParked ==
    /\ motion = [period |-> 1, ints |-> FALSE, repeat |-> FALSE,
                 bounce |-> FALSE,
                 delay |-> NoDelay, anim_timebase |-> FALSE,
                 child |-> NoDisplayable,
                 children |-> << >>, offsets |-> << >>, sizes |-> << >>]
    /\ motion_out = [rendered |-> FALSE, t |-> 0, progress |-> 0,
                     redraw |-> NoRedraw, size |-> << 0, 0 >>]

\* no Zoom is under test
ZoomParked ==
    /\ zoom = [time |-> 0, child |-> NoDisplayable,
               after_child |-> NoDisplayable,
               start |-> << 0, 0, 0, 0 >>, end |-> << 0, 0, 0, 0 >>]
    /\ zoom_out = [rendered |-> FALSE, st |-> 0, shown |-> NoDisplayable,
                   rect |-> << 0, 0, 0, 0 >>, redraw |-> NoRedraw,
                   was_after |-> FALSE]

\* None where a child is expected (Container.child, line 66)
NoChild == [id |-> 0, w |-> 0, h |-> 0]

\* the record of a render that has not happened
NoRender == [rendered |-> FALSE, err |-> NoError, width |-> 0, height |-> 0,
             frame_time |-> 0, interact_time |-> 0, size |-> << 0, 0 >>,
             alloc |-> << 0, 0 >>, cells |-> << >>, calls |-> << >>]

\* the record of an event call that has not happened
NoEvent == [called |-> FALSE, err |-> NoError, x |-> 0, y |-> 0,
            handlers |-> {}, calls |-> << >>, result |-> 0]

\* no container is under test
BoxParked ==
    /\ cls = "None"
    /\ children = << >>
    /\ self_child = NoChild
    /\ attrs = {}
    /\ offsets = << >>
    /\ sizes = << >>
    /\ start_times = << >>
    /\ anim_times = << >>
    /\ grid = [cols |-> 0, rows |-> 0, padding |-> 0, xfill |-> FALSE,
               yfill |-> FALSE, transpose |-> FALSE]
    /\ transpose = FALSE
    /\ r_out = NoRender
    /\ ev_out = NoEvent
    /\ added = << >>
    /\ drawn = << >>
    /\ gen = [n |-> 0, offsets |-> 0, sizes |-> 0, ok |-> 0, dirty |-> FALSE]

\* the MultiBox under test (layout.py, class MultiBox) and the record of
\* its last render
VARIABLES mbox, mbox_out

mboxVars == << mbox, mbox_out >>

\* the record of a MultiBox render that has not happened
NoBoxRender == [rendered |-> FALSE, width |-> 0, height |-> 0,
                size |-> << 0, 0 >>, calls |-> << >>, places |-> << >>]

\* no MultiBox is under test
MBoxParked ==
    /\ mbox = [layout |-> "None", default_layout |-> "None", spacing |-> 0,
               children |-> << >>, offsets |-> << >>, sizes |-> << >>]
    /\ mbox_out = NoBoxRender

\* the Animation under test (anim.py, class Animation) and the record of
\* its last render
VARIABLES animation, animation_out

animationVars == << animation, animation_out >>

\* the record of an Animation render that has not happened
NoAnimRender == [rendered |-> FALSE, st |-> 0, at |-> 0, err |-> NoError,
                 shown |-> None, index |-> 0, redraw |-> NoRedraw]

\* no Animation is under test
AnimationParked ==
    /\ animation = [images |-> << >>, delays |-> << >>,
                    anim_timebase |-> TRUE, nargs |-> 0]
    /\ animation_out = NoAnimRender

\* the Blink under test (anim.py, class Blink) and the record of its last
\* render
VARIABLES blink, blink_out

blinkVars == << blink, blink_out >>

\* the record of a Blink render that has not happened; alpha is the
\* fraction num / den
NoBlinkRender == [rendered |-> FALSE, st |-> 0, at |-> 0, err |-> NoError,
                  fired |-> {}, alpha |-> [num |-> 0, den |-> 1],
                  delay |-> NoRedraw, redraw |-> NoRedraw]

\* no Blink is under test
BlinkParked ==
    /\ blink = [on |-> 0, set |-> 0, off |-> 0, rise |-> 0, high |-> 0,
                low |-> 0, offset |-> 0, anim_timebase |-> FALSE,
                cycle |-> 0, can_map |-> FALSE]
    /\ blink_out = NoBlinkRender

\* the Window under test (layout.py, class Window) and the record of its
\* last render
VARIABLES window, window_out

windowVars == << window, window_out >>

\* a style value that is an int
Pixels(v) == [float |-> FALSE, v |-> v]

\* a style value that is a float: v tenths
Fraction(v) == [float |-> TRUE, v |-> v]

\* the record of a Window render that has not happened
NoWindowRender == [rendered |-> FALSE, err |-> NoError,
                   width |-> 0, height |-> 0,
                   size |-> << 0, 0 >>, child_area |-> << 0, 0 >>,
                   back |-> << 0, 0 >>, place |-> << 0, 0, 0, 0 >>]

\* no Window is under test
WindowParked ==
    /\ window = [xminimum |-> Pixels(0), yminimum |-> Pixels(0),
                 margins |-> << 0, 0, 0, 0 >>, paddings |-> << 0, 0, 0, 0 >>,
                 xfill |-> FALSE, yfill |-> FALSE, background |-> FALSE,
                 child |-> << 0, 0 >>, children |-> << >>,
                 offsets |-> << >>, sizes |-> << >>]
    /\ window_out = NoWindowRender

\* the construction state of the ui module (ui.py, lines 19-26), the
\* widgets it made and what its latest call did to them
VARIABLES
    current,        \* ui.current: a layer name or a widget
    current_stack,  \* ui.current_stack
    current_once,   \* ui.current_once
    widgets,        \* the widgets made so far; widget k is widgets[k]
    ui_out,         \* what the latest ui call did
    opens,          \* history: for each open not yet closed, the value
                    \* current had before it
    reopens         \* history: the number of calls of ui.reopen so far

uiVars == << current, current_stack, current_once, widgets, ui_out,
             opens, reopens >>

\* the current target that is the layer called n
Layer(n) == [kind |-> "layer", name |-> n, id |-> 0]

\* the current target that is widget k
Widget(k) == [kind |-> "widget", name |-> "", id |-> k]

\* the current target that is the container under test
UnderTest == [kind |-> "widget", name |-> "", id |-> 0]

\* where no target is meant
NoCurrent == [kind |-> "none", name |-> "", id |-> 0]

\* the layers of renpy.config.layers and renpy.config.top_layers (line 91)
ConfigLayers == { "transient" }

TopLayers == { "overlay" }

\* the record of a ui call that has not happened
NoCall == [op |-> "none", err |-> NoError, entered |-> FALSE,
           closed |-> FALSE, closed_to |-> NoCurrent,
           make_current |-> FALSE, name |-> "",
           added_to |-> NoCurrent, cleared |-> FALSE]

\* the stack is at most MaxDepth deep
MaxDepth == 2

\* ui.reopen is called at most MaxReopens times
MaxReopens == 1

\* the module as imported (lines 19-26)
InitUI ==
    /\ current = Layer("transient")
    /\ current_stack = << >>
    /\ current_once = FALSE
    /\ widgets = << >>
    /\ ui_out = NoCall
    /\ opens = << >>
    /\ reopens = 0

\* the ui module is not under test
UIParked ==
    /\ current = NoCurrent
    /\ current_stack = << >>
    /\ current_once = FALSE
    /\ widgets = << >>
    /\ ui_out = NoCall
    /\ opens = << >>
    /\ reopens = 0

\* ui.reopen(w, clear), lines 122-124, for the container under test w:
\* current is pushed and w is made current
ReopenUnderTest ==
    /\ Len(current_stack) < MaxDepth
    /\ reopens < MaxReopens
    /\ reopens' = reopens + 1
    /\ current_stack' = Append(current_stack, current)
    /\ current' = UnderTest
    /\ opens' = Append(opens, current)
    /\ ui_out' = [NoCall EXCEPT !.op = "reopen", !.cleared = TRUE]
    /\ UNCHANGED << current_once, widgets >>

\* the objects of the later sections
moreVars == << mboxVars, animationVars, blinkVars, windowVars, uiVars >>

\* none of them is under test
MoreParked ==
    MBoxParked /\ AnimationParked /\ BlinkParked /\ WindowParked /\ UIParked

\* what the operations of the ui module leave alone among them
notUI == << mboxVars, animationVars, blinkVars, windowVars >>

NotUIParked ==
    MBoxParked /\ AnimationParked /\ BlinkParked /\ WindowParked

\* what the operations of a MultiBox leave alone among them
notMBox == << animationVars, blinkVars, windowVars, uiVars >>

\* what the operations of an Animation leave alone among them
notAnimation == << mboxVars, blinkVars, windowVars, uiVars >>

NotAnimationParked ==
    MBoxParked /\ BlinkParked /\ WindowParked /\ UIParked

\* what the operations of a Blink leave alone among them
notBlink == << mboxVars, animationVars, windowVars, uiVars >>

NotBlinkParked ==
    MBoxParked /\ AnimationParked /\ WindowParked /\ UIParked

\* what the operations of a Window leave alone among them
notWindow == << mboxVars, animationVars, blinkVars, uiVars >>

vars == << smaVars, motionVars, zoomVars, boxVars, moreVars >>

\* what the SMAnimation operations leave alone
notSMA == << motionVars, zoomVars, boxVars, moreVars >>

\* the constructed object, as render and __call__ see it
confVars == << args, initial, delay, showold, anim_timebase, properties,
               states, edges >>

\* the time in the timebase the instance selected (render, lines 230-233)
TimeOf(s, a) == IF anim_timebase THEN a ELSE s

t == TimeOf(st, at)

\* state after SMAnimation.__init__
SMAInit ==
    \E k \in 1 .. NumArgs, props \in SUBSET {"showold", "anim_timebase"} :
        LET sma == SMAnimationInit("a", Args(k), props, NoTime, TRUE, FALSE)
        IN  /\ args = Args(k)
            /\ initial = sma.initial
            /\ delay = sma.delay
            /\ showold = sma.showold
            /\ anim_timebase = sma.anim_timebase
            /\ properties = sma.properties
            /\ states = sma.states
            /\ edges = sma.edges
            /\ edge_start = NoTime
            /\ edge_cache = NoDisplayable
            /\ edge = NoEdge
            /\ state = None
            /\ st = 0 /\ at = 0
            /\ pc = "idle"
            /\ shown = NoDisplayable
            /\ redraw = NoRedraw
            /\ err = NoError
            /\ call_result = "none"
            /\ call_child = NoDisplayable
            /\ copy = SMAnimationInit("a", << >>, {}, NoTime, FALSE, TRUE)
            /\ first_t = NoTime
            /\ completed = 0
            /\ reset_from = NoEdge
            /\ was_reset = FALSE
            /\ iters = 0
            /\ loop_from = NoTime
            /\ before = NoSnapshot
            /\ composed = 0
            /\ MotionParked
            /\ ZoomParked
            /\ BoxParked
            /\ MoreParked

\* no SMAnimation is under test
SMAParked ==
    /\ args = << >>
    /\ initial = None
    /\ delay = NoTime
    /\ showold = FALSE
    /\ anim_timebase = TRUE
    /\ properties = {}
    /\ states = EmptyDict
    /\ edges = EmptyDict
    /\ edge_start = NoTime
    /\ edge_cache = NoDisplayable
    /\ edge = NoEdge
    /\ state = None
    /\ st = 0 /\ at = 0
    /\ pc = "parked"
    /\ shown = NoDisplayable
    /\ redraw = NoRedraw
    /\ err = NoError
    /\ call_result = "none"
    /\ call_child = NoDisplayable
    /\ copy = SMAnimationInit("a", << >>, {}, NoTime, FALSE, TRUE)
    /\ first_t = NoTime
    /\ completed = 0
    /\ reset_from = NoEdge
    /\ was_reset = FALSE
    /\ iters = 0
    /\ loop_from = NoTime
    /\ before = NoSnapshot
    /\ composed = 0


(* ----------------------------- render ---------------------------------- *)

\* mutant: a time regression is not detected
NeedsResetFirstOnly(es, now) == es = NoTime

\* mutant: a render at the very start of the edge restarts the walk
NeedsResetOnEqual(es, now) == es = NoTime \/ now <= es

\* render, line 235: first render, or the time went back before edge_start
NeedsReset(es, now) == es = NoTime \/ now < es

\* mutant: an edge expires as soon as its end is reached
ExpiredAtEnd(now, es, d) == now >= es + d

\* mutant: an edge without duration never expires
ExpiredNonZero(now, es, d) == d > 0 /\ now > es + d

\* render, line 240: the current edge is overdue
Expired(now, es, d) == now > es + d

\* mutant: the start of the next edge is snapped to the current time
AdvanceSnap(es, d, now) == now

\* mutant: the start of the edge is not moved
AdvanceStuck(es, d, now) == es

\* render, line 241: edge_start += edge.delay
Advance(es, d, now) == es + d

\* mutant: the cache survives an edge pick
KeepCache(c) == c

\* render, lines 237 and 242: edge_cache = None
ClearCache(c) == NoDisplayable

\* mutant: the redraw is requested a whole edge delay ahead
RedrawDelayFull(e, now, es) == e.delay

\* render, line 262: the delay of the redraw request
RedrawDelay(e, now, es) == e.delay - (now - es)

\* mutant: the choice is made among the edges out of every state
CandidatesAny(s) ==
    UNION { { edges[o][i] : i \in 1 .. Len(edges[o]) } : o \in DOMAIN edges }

\* pick_edge, lines 196-197: what random.choice can return
Candidates(s) == { edges[s][i] : i \in 1 .. Len(edges[s]) }

\* pick_edge(s): no edge out of s leaves the state alone and unsets the
\* edge; otherwise an edge is chosen and its destination entered
pick_edge(s) ==
    IF s \notin DOMAIN edges
    THEN /\ edge' = NoEdge
         /\ state' = state
    ELSE \E e \in Candidates(s) :
            /\ edge' = e
            /\ state' = e.new

\* self.states[n].get_image(): the lookup raises for a name that is not a
\* state
StateImage(n) ==
    IF n \notin DOMAIN states THEN Raise("KeyError")
    ELSE get_image(states[n])

\* update_cache, lines 208-214: the displayable composed for edge e.  The
\* arguments of the transition are evaluated from left to right: the image
\* of the old state, then the image of the new state.
update_cache(e) ==
    IF e.trans # None
    THEN LET o == StateImage(e.old)
         IN  IF o.err # NoError THEN o
             ELSE LET n == StateImage(e.new)
                  IN  IF n.err # NoError THEN n
                      ELSE Ok(<< e.trans >> \o o.val \o n.val)
    ELSE StateImage(IF showold THEN e.old ELSE e.new)

\* renpy.display.render.render(d, ...) of lines 249 and 260 calls the
\* render method of d, which the unset image None does not have
RenderOf(d) ==
    IF d = NoDisplayable THEN Raise("AttributeError") ELSE Ok(d)

Min(a, b) == IF a < b THEN a ELSE b

\* render, lines 230-238: select the timebase; on the first render or on a
\* time regression restart the walk from the initial state
RenderBegin(s, a) ==
    /\ pc = "idle"
    /\ st' = s /\ at' = a
    /\ pc' = "loop"
    /\ shown' = NoDisplayable
    /\ redraw' = NoRedraw
    /\ err' = NoError
    /\ iters' = 0
    /\ before' = IF edge_start # NoTime /\ s = st /\ a = at
                 THEN [valid |-> TRUE, edge_start |-> edge_start,
                       edge_cache |-> edge_cache, edge |-> edge,
                       state |-> state]
                 ELSE NoSnapshot
    /\ IF NeedsReset(edge_start, TimeOf(s, a))
       THEN /\ edge_start' = TimeOf(s, a)
            /\ edge_cache' = ClearCache(edge_cache)
            /\ pick_edge(initial)
            /\ first_t' = TimeOf(s, a)
            /\ completed' = 0
            /\ was_reset' = (edge_start # NoTime)
            /\ reset_from' = edge
            /\ composed' = 0
       ELSE /\ was_reset' = FALSE
            /\ reset_from' = NoEdge
            /\ UNCHANGED << edge_start, edge_cache, edge, state, first_t,
                            completed, composed >>
    /\ loop_from' = edge_start'
    /\ UNCHANGED << notSMA, confVars, call_result, call_child, copy >>

\* render, lines 240-243: one iteration of the catch-up loop
RenderLoop ==
    /\ pc = "loop"
    /\ edge # NoEdge
    /\ Expired(t, edge_start, edge.delay)
    /\ edge_start' = Advance(edge_start, edge.delay, t)
    /\ edge_cache' = ClearCache(edge_cache)
    /\ pick_edge(edge.new)
    /\ completed' = completed + edge.delay
    /\ iters' = Min(iters + 1, MaxIters)
    /\ composed' = 0
    /\ UNCHANGED << notSMA, confVars, st, at, pc, shown, redraw, err, call_result,
                    call_child, copy, first_t, reset_from, was_reset,
                    loop_from, before >>

\* render, lines 248-251: no edge, a permanent static picture
RenderStatic ==
    /\ pc = "loop"
    /\ edge = NoEdge
    /\ pc' = "idle"
    /\ LET im == StateImage(state)
           rv == IF im.err # NoError THEN im ELSE RenderOf(im.val)
       IN  /\ err' = rv.err
           /\ shown' = rv.val
    /\ UNCHANGED << notSMA, confVars, edge_start, edge_cache, edge, state, st, at,
                    redraw, call_result, call_child, copy, first_t, completed,
                    reset_from, was_reset, iters, loop_from, before,
                    composed >>

\* render, lines 256-262: the loop left an edge that is not overdue; fill
\* the cache if it is empty, render it and request the redraw
RenderEdge ==
    /\ pc = "loop"
    /\ edge # NoEdge
    /\ ~ Expired(t, edge_start, edge.delay)
    /\ pc' = "idle"
    /\ IF edge_cache = NoDisplayable
       THEN LET im == update_cache(edge)
                rv == IF im.err # NoError THEN im ELSE RenderOf(im.val)
            IN  /\ composed' = Min(composed + 1, 2)
                /\ err' = rv.err
                /\ edge_cache' = IF im.err # NoError THEN edge_cache
                                                     ELSE im.val
                /\ IF rv.err # NoError
                   THEN UNCHANGED << shown, redraw >>
                   ELSE /\ shown' = rv.val
                        /\ redraw' = RedrawDelay(edge, t, edge_start)
       ELSE /\ shown' = edge_cache
            /\ redraw' = RedrawDelay(edge, t, edge_start)
            /\ UNCHANGED << edge_cache, err, composed >>
    /\ UNCHANGED << notSMA, confVars, edge_start, edge, state, st, at, call_result,
                    call_child, copy, first_t, completed, reset_from,
                    was_reset, iters, loop_from, before >>


(* ----------------------------- __call__ -------------------------------- *)

\* the values of a dict, in some iteration order
RECURSIVE itervalues(_)
itervalues(d) ==
    IF DOMAIN d = {} THEN << >>
    ELSE LET k == CHOOSE x \in DOMAIN d : TRUE
         IN  << d[k] >> \o itervalues([x \in (DOMAIN d) \ {k} |-> d[x]])

\* args.extend(edges) for every adjacency list
RECURSIVE Flatten(_)
Flatten(ss) == IF ss = << >> THEN << >> ELSE Head(ss) \o Flatten(Tail(ss))

\* __call__, lines 279-280: the substitute child defaults to new_widget
SubstituteChild(child, new_widget) ==
    IF child = NoDisplayable THEN new_widget ELSE child

\* __call__, lines 282-285: the motion copies of all states
MotionCopies(child) ==
    LET vs == itervalues(states)
    IN  [i \in 1 .. Len(vs) |-> motion_copy(vs[i], child)]

\* SMAnimation.__call__(child, new_widget, old_widget)
Call(child, new_widget) ==
    /\ pc = "idle"
    /\ call_result = "none"
    /\ call_child' = SubstituteChild(child, new_widget)
    /\ LET cs == MotionCopies(SubstituteChild(child, new_widget))
       IN  IF \E i \in 1 .. Len(cs) : cs[i].err # NoError
           THEN /\ call_result' =
                       cs[CHOOSE i \in 1 .. Len(cs) : cs[i].err # NoError].err
                /\ copy' = copy
           ELSE /\ call_result' = "ok"
                /\ copy' = SMAnimationInit(
                              initial,
                              [i \in 1 .. Len(cs) |-> cs[i].val]
                                  \o Flatten(itervalues(edges)),
                              {"delay"} \cup properties,
                              delay, FALSE, TRUE)
    /\ UNCHANGED << notSMA, confVars, edge_start, edge_cache, edge, state, st, at, pc,
                    shown, redraw, err, first_t, completed, reset_from,
                    was_reset, iters, loop_from, before, composed >>

(* --------------------------- specification ----------------------------- *)

SMANext ==
    \/ \E s \in Times, a \in Times : RenderBegin(s, a)
    \/ RenderLoop
    \/ RenderStatic
    \/ RenderEdge
    \/ \E c \in Children, w \in Widgets : Call(c, w)

SpecSMA == SMAInit /\ [][SMANext]_vars

\* Every render call is run to its end: the interpreter keeps executing the
\* loop and the tail of render once the call has started.
FairSpecSMA ==
    SpecSMA /\ WF_vars(RenderLoop) /\ WF_vars(RenderStatic) /\ WF_vars(RenderEdge)

TypeOK ==
    /\ edge_start \in {NoTime} \cup Times
    /\ pc \in {"idle", "loop"}
    /\ redraw \in {NoRedraw} \cup Times
    /\ iters \in 0 .. MaxIters


(* ------------------------------ claims --------------------------------- *)

\* a render call has run to its end
Rendered == pc = "idle" /\ edge_start # NoTime

\* the number of times edge e occurs in the adjacency list of its old state
Occurrences(e) ==
    IF e.old \in DOMAIN edges
    THEN Cardinality({ j \in 1 .. Len(edges[e.old]) : edges[e.old][j] = e })
    ELSE 0

\* the states reachable from s along zero-delay edges, in at most n steps
RECURSIVE ZeroReach(_, _)
ZeroReach(s, n) ==
    IF n = 0 THEN {s}
    ELSE LET r == ZeroReach(s, n - 1)
         IN  r \cup { e.new : e \in { x \in UNION { Candidates(o) :
                                          o \in r \cap DOMAIN edges } :
                                      x.delay = 0 } }

\* e lies on a cycle that consists of zero-delay edges only
OnZeroCycle(e) ==
    /\ e # NoEdge
    /\ e.delay = 0
    /\ e.old \in ZeroReach(e.new, Cardinality(DOMAIN states))

\* C1: edge_start advances by exactly the delay of every expired edge and is
\* never snapped to the current time: it always equals the time of the
\* render that started the walk plus the delays of the edges completed since.
C1_EdgeStartAccumulates ==
    edge_start # NoTime => edge_start = first_t + completed

\* C1 witness: one render completed two edges and edge_start is not the
\* render time
C1_Witness ==
    /\ Rendered /\ iters >= 2 /\ completed >= 2
    /\ edge # NoEdge /\ edge_start # t

\* C2: after a render no edge is overdue and none is from the future.
C2_NoOverdueNoFuture ==
    Rendered =>
        \/ edge = NoEdge
        \/ edge_start <= t /\ t <= edge_start + edge.delay

\* C2 witness: a single render consumed at least two expired edges and
\* returned with an edge still active
C2_Witness ==
    Rendered /\ err = NoError /\ iters >= 2 /\ edge # NoEdge

\* C3: with an initial state without outgoing edges every render succeeds
\* with no active edge and shows the image of the initial state.
C3_StaticInitial ==
    (Rendered /\ initial \notin DOMAIN edges) =>
        /\ err = NoError
        /\ edge = NoEdge
        /\ shown = states[initial].image

\* what the catch-up loop does when it consumes the current edge
Advances ==
    /\ pc' = "loop"
    /\ edge_start' = edge_start + edge.delay
    /\ IF edge.new \in DOMAIN edges
       THEN edge' \in Candidates(edge.new) /\ state' = edge'.new
       ELSE edge' = NoEdge /\ state' = state

\* C4 as stated: an edge is consumed by a render at any time t with
\* t >= edge_start + edge.delay, equality included.
C4_ExpiresAtEnd ==
    [][(pc = "loop" /\ edge # NoEdge /\ t >= edge_start + edge.delay)
          => Advances]_vars

\* C4 amended: an edge is consumed by a render at a time t with
\* t > edge_start + edge.delay; at t = edge_start + edge.delay (and before)
\* the render keeps the edge and its start.
C4_ExpiresAfterEnd ==
    [][(pc = "loop" /\ edge # NoEdge)
          => IF t > edge_start + edge.delay
             THEN Advances
             ELSE /\ pc' = "idle"
                  /\ edge' = edge
                  /\ edge_start' = edge_start
                  /\ state' = state]_vars

\* C4 witness: a render exactly at the end of an edge of positive delay
\* returned with that edge still active
C4_Witness ==
    /\ Rendered /\ err = NoError /\ edge # NoEdge
    /\ edge.delay > 0 /\ t = edge_start + edge.delay /\ redraw = 0

\* C5: a render with a time before edge_start resets the machine: edge_start
\* becomes that time, the cache is cleared and the edge is picked among the
\* edges out of the initial state.
C5_RegressionResets ==
    [][(pc = "idle" /\ pc' = "loop" /\ edge_start # NoTime /\ t' < edge_start)
          => /\ edge_start' = t'
             /\ edge_cache' = NoDisplayable
             /\ IF initial \in DOMAIN edges
                THEN edge' \in Candidates(initial) /\ state' = edge'.new
                ELSE edge' = NoEdge]_vars

\* C5 witness: a time regression found the walk on an edge that does not
\* start at the initial state, with a filled cache, and restarted it
C5_Witness ==
    /\ was_reset /\ reset_from # NoEdge /\ reset_from.old # initial
    /\ edge # NoEdge /\ edge.old = initial /\ edge_start = t

\* C6: edges[s] holds every supplied Edge e with e.old = s exactly e.prob
\* times and nothing else.
C6_Adjacency ==
    /\ \A i \in 1 .. Len(args) :
          args[i].cls = "Edge" => Occurrences(args[i]) = args[i].prob
    /\ \A s \in DOMAIN edges : \A j \in 1 .. Len(edges[s]) :
          /\ edges[s][j].old = s
          /\ \E i \in 1 .. Len(args) :
                args[i].cls = "Edge" /\ args[i] = edges[s][j]

\* C6 witness: an edge of weight 3 next to an edge of weight 1
C6_Witness ==
    \E i, j \in 1 .. Len(args) :
        /\ args[i].cls = "Edge" /\ args[j].cls = "Edge"
        /\ args[i].old = args[j].old
        /\ args[i].prob = 3 /\ Occurrences(args[i]) = 3
        /\ args[j].prob = 1 /\ Occurrences(args[j]) = 1

\* C7: calling the SMAnimation with a substitute child succeeds and returns
\* a machine with the same state names, the unset images replaced by the
\* child and the set images kept.
C7_CallSubstitutes ==
    call_result # "none" =>
        /\ call_result = "ok"
        /\ DOMAIN copy.states = DOMAIN states
        /\ \A n \in DOMAIN states :
              copy.states[n].image =
                 IF states[n].image = NoDisplayable THEN call_child
                 ELSE states[n].image

\* C8 as stated: the cache is composed at most once per picked edge, and a
\* filled cache is the displayable composed from the edge that is current.
C8_CachePerEdge ==
    /\ composed <= 1
    /\ edge_cache # NoDisplayable =>
          /\ edge # NoEdge
          /\ update_cache(edge) = Ok(edge_cache)

\* C8, amended: a filled cache is the displayable composed from the edge
\* that is current, and the cache is composed once per picked edge whenever
\* composing yields a displayable; an edge that composes None (no
\* transition, into a state whose image is unset) leaves the cache empty
\* and is composed again by every render.
C8_CachePerComposedEdge ==
    /\ composed > 1 =>
          /\ edge # NoEdge /\ edge_cache = NoDisplayable
          /\ update_cache(edge) = Ok(NoDisplayable)
    /\ edge_cache # NoDisplayable =>
          /\ edge # NoEdge
          /\ update_cache(edge) = Ok(edge_cache)

\* C8 witness: a render moved to another edge and composed its visual anew
C8_Witness ==
    /\ Rendered /\ iters >= 1 /\ composed = 1
    /\ edge # NoEdge /\ edge_cache = update_cache(edge).val

\* C9: a render that ends on an edge requests a redraw after exactly the
\* time left on the edge, which lies in [0, edge.delay]; a render that ends
\* without an edge requests none.
C9_RedrawRemaining ==
    Rendered =>
        /\ (edge # NoEdge /\ err = NoError) =>
              /\ redraw = edge.delay - (t - edge_start)
              /\ 0 <= redraw /\ redraw <= edge.delay
        /\ edge = NoEdge => redraw = NoRedraw

\* C9 witness: a render in the middle of an edge
C9_Witness ==
    /\ Rendered /\ err = NoError /\ edge # NoEdge
    /\ 0 < redraw /\ redraw < edge.delay

\* C10: inside the catch-up loop, on an edge of a zero-delay cycle and with
\* t > edge_start, the loop can always iterate once more and be in the same
\* situation again, so one render call can iterate without end.
C10_ZeroCycleLoops ==
    (pc = "loop" /\ OnZeroCycle(edge) /\ t > edge_start) =>
        ENABLED (/\ RenderLoop
                 /\ pc' = "loop"
                 /\ OnZeroCycle(edge')
                 /\ t' > edge_start')

\* C10 witness: the loop of one render call has iterated as often as is
\* counted and is still on the zero-delay cycle
C10_Witness ==
    pc = "loop" /\ OnZeroCycle(edge) /\ t > edge_start /\ iters = MaxIters


(* ======================================================================= *)
(* Motion (layout.py).  Times are ticks; the progress value handed to the  *)
(* interpolation function is kept as a numerator over the period, so that  *)
(* progress 1.0 is the value `period'.                                     *)
(* ======================================================================= *)

\* periods range over 1..MaxPeriod, delays over None and 0..MaxPeriod+1
MaxPeriod == 4

\* Motion and Zoom render times range over 0..MaxMotionTime
MaxMotionTime == 6

MotionTimes == 0 .. MaxMotionTime

\* the child a Motion is built with and the one that is added later
MotionChild == <<"child">>
MotionSecond == <<"second">>

\* the size a child of a Motion renders at
MotionChildSize(c) == IF c = MotionChild THEN << 10, 20 >> ELSE << 30, 10 >>

\* a Motion holds at most MaxMotionChildren children
MaxMotionChildren == 2

\* Motion.__init__, lines 667-682.  ints tells whether period and delay are
\* given as Python ints (as in Motion(f, 2, child, delay=1)) or as floats.
MotionInit(period, child, new_widget, repeat, bounce, dly, animtb, ints) ==
    [period |-> period,
     ints |-> ints,
     repeat |-> repeat,
     bounce |-> bounce,
     delay |-> IF dly = NoDelay /\ ~ repeat THEN period ELSE dly,
     anim_timebase |-> animtb,
     child |-> IF child = NoDisplayable THEN new_widget ELSE child,
     children |-> << IF child = NoDisplayable THEN new_widget ELSE child >>,
     offsets |-> << >>,
     sizes |-> << >>]

\* mutant: the delay counts as reached only once it is passed
DelayPassed(d, tt) == d # NoDelay /\ d # 0 /\ tt > d

\* Motion.render, line 695: self.delay and t >= self.delay
DelayReached(d, tt) == d # NoDelay /\ d # 0 /\ tt >= d

\* Motion.render, lines 695-706: the clamped or wrapped time and whether a
\* redraw (with delay 0) is requested
MotionClamp(m, tt) ==
    IF DelayReached(m.delay, tt)
    THEN [t |-> IF m.repeat THEN m.delay % m.period ELSE m.delay,
          redraw |-> NoRedraw]
    ELSE IF m.repeat
    THEN [t |-> tt % m.period, redraw |-> 0]
    ELSE IF tt > m.period
    THEN [t |-> m.period, redraw |-> NoRedraw]
    ELSE [t |-> tt, redraw |-> 0]

\* Motion.render, line 708: t /= self.period, as a numerator over period.
\* The times st and at are floats and so is every t computed from them; in
\* the branch of the reached delay t is self.delay (or its remainder), and
\* when delay and period are both ints the division is the floor division
\* of Python 2.
MotionDivide(m, tt) ==
    IF m.ints /\ DelayReached(m.delay, tt)
    THEN (MotionClamp(m, tt).t \div m.period) * m.period
    ELSE MotionClamp(m, tt).t

\* mutant: the doubled progress is not reflected above 1.0
BounceNoFold(n, period) == 2 * n

\* Motion.render, lines 711-713: t = t * 2; if t > 1.0: t = 2.0 - t
\* (n is the progress numerator over period)
BounceFold(n, period) ==
    IF 2 * n > period THEN 2 * period - 2 * n ELSE 2 * n

\* Motion.render, lines 695-715: the progress handed to the function (as a
\* numerator over period) and the redraw request, at elapsed time tt
MotionProgress(m, tt) ==
    LET c == MotionClamp(m, tt)
        n == MotionDivide(m, tt)
    IN  [progress |-> IF m.bounce THEN BounceFold(n, m.period) ELSE n,
         redraw |-> c.redraw]

\* Motion.render, lines 689-692: the selected timebase
MotionTime(m, s, a) == IF m.anim_timebase THEN a ELSE s

\* a Motion is constructed
InitMotion ==
    \E period \in 1 .. MaxPeriod,
       dly \in {NoDelay} \cup (0 .. MaxPeriod + 1),
       repeat \in BOOLEAN, bounce \in BOOLEAN, animtb \in BOOLEAN,
       ints \in BOOLEAN :
        /\ motion = MotionInit(period, MotionChild, NoDisplayable, repeat,
                               bounce, dly, animtb, ints)
        /\ motion_out = [rendered |-> FALSE, t |-> 0,
                         progress |-> 0, redraw |-> NoRedraw,
                         size |-> << 0, 0 >>]

\* Motion.render(width, height, st, at): the function is called with the
\* progress, then self.child is rendered and described (lines 722-729)
MotionRender(s, a) ==
    /\ LET r == MotionProgress(motion, MotionTime(motion, s, a))
       IN  motion_out' = [rendered |-> TRUE, t |-> MotionTime(motion, s, a),
                          progress |-> r.progress, redraw |-> r.redraw,
                          size |-> MotionChildSize(motion.child)]
    /\ motion' = [motion EXCEPT !.sizes = << MotionChildSize(motion.child) >>,
                                !.offsets = << << 0, 0 >> >>]
    /\ UNCHANGED << smaVars, zoomVars, boxVars, moreVars >>

\* Container.add(child), lines 87-96, on a Motion
MotionAdd(c) ==
    /\ Len(motion.children) < MaxMotionChildren
    /\ motion' = [motion EXCEPT !.children = Append(@, c), !.child = c]
    /\ UNCHANGED << smaVars, zoomVars, boxVars, moreVars, motion_out >>

\* ui.reopen(w, True), ui.py lines 115-127, for the Motion
MotionClear ==
    /\ ReopenUnderTest
    /\ motion' = [motion EXCEPT !.children = << >>]
    /\ UNCHANGED << smaVars, zoomVars, boxVars, notUI, motion_out >>

\* the time in the timebase that the Motion does not read
OtherTimes == { 0, MaxMotionTime }

MotionNext ==
    \/ \E tt \in MotionTimes, other \in OtherTimes :
          IF motion.anim_timebase THEN MotionRender(other, tt)
          ELSE MotionRender(tt, other)
    \/ MotionAdd(MotionSecond)
    \/ MotionClear

\* a Motion, every other object unused
StartMotion ==
    /\ SMAParked /\ ZoomParked /\ BoxParked /\ NotUIParked
    /\ InitUI /\ InitMotion

SpecMotion == StartMotion /\ [][MotionNext]_vars

\* the elapsed time of the latest Motion render, in its timebase
mt == motion_out.t

\* C11: the progress handed to the interpolation function lies in [0, 1],
\* whatever the configuration and the time.
C11_ProgressInUnit ==
    motion_out.rendered =>
        0 <= motion_out.progress /\ motion_out.progress <= motion.period

\* C12: a Motion that neither repeats nor bounces and whose delay is its
\* period has progress 0 at time 0 and progress 1 from the delay on, requests
\* no redraw from the delay on and a redraw with delay 0 before.
C12_StopsAtDelay ==
    (/\ motion_out.rendered
     /\ ~ motion.repeat /\ ~ motion.bounce
     /\ motion.delay = motion.period) =>
        /\ mt = 0 => motion_out.progress = 0
        /\ mt >= motion.delay =>
              /\ motion_out.progress = motion.period
              /\ motion_out.redraw = NoRedraw
        /\ mt < motion.delay => motion_out.redraw = 0

\* C12 witness: a render exactly at the delay showed the end position and
\* requested nothing
C12_Witness ==
    /\ motion_out.rendered /\ ~ motion.repeat /\ ~ motion.bounce
    /\ motion.delay = motion.period /\ mt = motion.delay
    /\ motion_out.progress = motion.period /\ motion_out.redraw = NoRedraw

\* C13: with repeat and bounce and no delay the progress is symmetric
\* within a period and periodic.
C13_BounceSymmetry ==
    (/\ motion_out.rendered
     /\ motion.repeat /\ motion.bounce /\ motion.delay = NoDelay) =>
        /\ mt <= motion.period =>
              motion_out.progress =
                 MotionProgress(motion, motion.period - mt).progress
        /\ motion_out.progress =
              MotionProgress(motion, mt + motion.period).progress

\* C13 witness: a render in the falling half of a later period
C13_Witness ==
    /\ motion_out.rendered
    /\ motion.repeat /\ motion.bounce /\ motion.delay = NoDelay
    /\ mt > motion.period /\ 2 * (mt % motion.period) > motion.period
    /\ 0 < motion_out.progress /\ motion_out.progress < motion.period


(* ======================================================================= *)
(* Zoom (layout.py).  The fraction done is a numerator over ZoomDen; the   *)
(* crop rectangle is kept in the same unit.                                *)
(* ======================================================================= *)

\* zoom times range over 0..MaxZoomTime
MaxZoomTime == 3

\* Zoom.__init__, lines 887-896
ZoomInit(start, end, time, child, after_child) ==
    [time |-> time, child |-> child, after_child |-> after_child,
     start |-> start, end |-> end]

\* the denominator of the fraction done
ZoomDen(time) == IF time # 0 THEN time ELSE 1

\* Zoom.render, lines 907-910: done = min(st / time, 1.0), or 1.0 when the
\* time is zero
ZoomDone(time, s) == IF time # 0 THEN Min(s, time) ELSE 1

\* mutant: the switch to after_child is remembered
ZoomShowsAfterLatched(z, s) ==
    /\ z.after_child # NoDisplayable
    /\ ZoomDone(z.time, s) = ZoomDen(z.time) \/ zoom_out.was_after

\* Zoom.render, line 912: self.after_child and done == 1.0
ZoomShowsAfter(z, s) ==
    /\ z.after_child # NoDisplayable
    /\ ZoomDone(z.time, s) = ZoomDen(z.time)

\* Zoom.render, line 919: the interpolated crop rectangle
ZoomRect(z, s) ==
    [i \in 1 .. 4 |->
        (ZoomDen(z.time) - ZoomDone(z.time, s)) * z.start[i]
            + ZoomDone(z.time, s) * z.end[i]]

\* a Zoom is constructed
InitZoom ==
    \E time \in 0 .. MaxZoomTime,
       after \in { NoDisplayable, <<"after">> },
       end \in { << 10, 10, 20, 20 >>, << 0, 0, 40, 40 >> } :
        /\ zoom = ZoomInit(<< 0, 0, 40, 40 >>, end, time, <<"child">>, after)
        /\ zoom_out = [rendered |-> FALSE, st |-> 0, shown |-> NoDisplayable,
                       rect |-> << 0, 0, 0, 0 >>, redraw |-> NoRedraw,
                       was_after |-> FALSE]

\* Zoom.render(width, height, st, at)
ZoomRender(s) ==
    /\ zoom_out' =
          IF ZoomShowsAfter(zoom, s)
          THEN [rendered |-> TRUE, st |-> s, shown |-> zoom.after_child,
                rect |-> << 0, 0, 0, 0 >>, redraw |-> NoRedraw,
                was_after |-> TRUE]
          ELSE [rendered |-> TRUE, st |-> s, shown |-> zoom.child,
                rect |-> ZoomRect(zoom, s),
                redraw |-> IF ZoomDone(zoom.time, s) < ZoomDen(zoom.time)
                           THEN 0 ELSE NoRedraw,
                was_after |-> zoom_out.was_after]
    /\ UNCHANGED << smaVars, motionVars, boxVars, moreVars, zoom >>

ZoomNext == \E s \in MotionTimes : ZoomRender(s)

\* a Zoom, every other object unused
StartZoom ==
    SMAParked /\ MotionParked /\ BoxParked /\ MoreParked /\ InitZoom

SpecZoom == StartZoom /\ [][ZoomNext]_vars

\* C14 as stated: once after_child has been rendered, every later render
\* shows after_child.
C14_OneWay ==
    (zoom_out.rendered /\ zoom_out.was_after) =>
        zoom_out.shown = zoom.after_child

\* C14 amended: a render shows after_child exactly when an after_child is
\* configured and st has reached the zoom time (or the zoom time is 0).
C14_AfterIffDone ==
    zoom_out.rendered =>
        (zoom_out.shown = zoom.after_child
            <=> /\ zoom.after_child # NoDisplayable
                /\ zoom.time = 0 \/ zoom_out.st >= zoom.time)

\* C14 witness: after a render that showed after_child, a render with a
\* smaller st shows the zoomed child again
C14_Witness ==
    /\ zoom_out.rendered /\ zoom_out.was_after
    /\ zoom_out.st < zoom.time
    /\ zoom_out.shown = zoom.child /\ zoom_out.redraw = 0


(* ======================================================================= *)
(* Layout containers (layout.py): Container, Position, Fixed and Grid.     *)
(* A child is a record with its identity and the size it renders at,       *)
(* whatever area it is offered.  Whether a child raises while it is        *)
(* rendered or placed is decided at each render call.                      *)
(* ======================================================================= *)

\* Container, Position and Fixed hold at most MaxChildren children
MaxChildren == 2

\* at most MaxRenders render calls are made on a container
MaxRenders == 2

\* the areas a container is rendered in
Areas == { << 100, 60 >>, << 45, 33 >> }

\* frame times (also the st and at handed to the other containers)
FrameTimes == { 4 }

\* event times
EventTimes == { 6 }

\* a render makes one of its first MaxFail children raise, or none
MaxFail == 2

\* interact times
InteractTimes == { 0, 3 }

\* the start and animation times a child is added to a Fixed with
AddTimes == { << NoTime, NoTime >>, << 0, NoTime >>, << 2, 1 >> }

\* the sizes the child with identity id may render at
Shapes(id) ==
    IF id <= 1 THEN { << 10, 20 >>, << 30, 10 >> }
    ELSE { << 10 + 5 * (id % 3), 8 + 4 * (id % 4) >> }

\* the grids under test: Grid(cols, rows, padding, transpose) with the fill
\* flags of its style
GridConf(k) ==
    CASE k = 1 -> [cols |-> 2, rows |-> 2, padding |-> 0, xfill |-> FALSE,
                   yfill |-> FALSE, transpose |-> TRUE]
      [] k = 2 -> [cols |-> 3, rows |-> 2, padding |-> 5, xfill |-> FALSE,
                   yfill |-> FALSE, transpose |-> TRUE]
      [] k = 3 -> [cols |-> 2, rows |-> 3, padding |-> 2, xfill |-> TRUE,
                   yfill |-> FALSE, transpose |-> TRUE]
      [] k = 4 -> [cols |-> 2, rows |-> 2, padding |-> 5, xfill |-> TRUE,
                   yfill |-> TRUE, transpose |-> FALSE]
      [] k = 5 -> [cols |-> 1, rows |-> 2, padding |-> 3, xfill |-> FALSE,
                   yfill |-> TRUE, transpose |-> TRUE]
      [] OTHER -> [cols |-> 3, rows |-> 1, padding |-> 4, xfill |-> FALSE,
                   yfill |-> FALSE, transpose |-> FALSE]

NumGrids == 6

\* Container.__init__ / Fixed.__init__ / Grid.__init__: an empty container
BoxInit(c, k) ==
        /\ cls = c
        /\ children = << >>
        /\ self_child = NoChild
        /\ attrs = {}
        /\ offsets = << >>
        /\ sizes = << >>
        /\ start_times = << >>
        /\ anim_times = << >>
        /\ grid = IF c = "Grid" THEN GridConf(k) ELSE GridConf(NumGrids)
        /\ transpose = IF c = "Grid" THEN GridConf(k).transpose ELSE FALSE
        /\ r_out = NoRender
        /\ ev_out = NoEvent
        /\ added = << >>
        /\ drawn = << >>
        /\ gen = [n |-> 0, offsets |-> 0, sizes |-> 0, ok |-> 0, dirty |-> FALSE]

\* an empty Container, Position or Fixed
InitBox == \E c \in { "Container", "Position", "Fixed" } : BoxInit(c, NumGrids)

\* an empty Grid, one of the grids under test
InitGrid == \E k \in 1 .. NumGrids : BoxInit("Grid", k)

\* how many children the container under test is given in all: every add
\* counts, also of a child that a reopen removed afterwards
ChildLimit ==
    IF cls = "Grid" THEN grid.cols * grid.rows + 1 ELSE MaxChildren

\* Container.add(child), lines 92-96, for a child that is not None
ContainerAdd(c) ==
    /\ children' = Append(children, c)
    /\ self_child' = c
    /\ added' = Append(added, c)

\* add a child to a Container, a Position or a Grid
BoxAdd ==
    /\ cls \in { "Container", "Position", "Grid" }
    /\ Len(added) < ChildLimit
    /\ \E sz \in Shapes(Len(added) + 1) :
          ContainerAdd([id |-> Len(added) + 1, w |-> sz[1], h |-> sz[2]])
    /\ ev_out' = NoEvent
    /\ gen' = [gen EXCEPT !.dirty = TRUE]
    /\ r_out' = NoRender
    /\ UNCHANGED << smaVars, motionVars, zoomVars, moreVars, cls, attrs,
                    offsets, sizes, start_times, anim_times, grid, transpose,
                    drawn >>

\* Fixed.add(widget, start_time, anim_time), lines 174-177; Container.add
\* ignores a widget that is None, the times are appended all the same
FixedAdd(none, tms) ==
    /\ cls = "Fixed"
    /\ Len(start_times) < MaxChildren
    /\ IF none
       THEN UNCHANGED << children, self_child, added >>
       ELSE \E sz \in Shapes(Len(added) + 1) :
               ContainerAdd([id |-> Len(added) + 1, w |-> sz[1], h |-> sz[2]])
    /\ start_times' = Append(start_times, tms[1])
    /\ anim_times' = Append(anim_times, tms[2])
    /\ drawn' = Append(drawn, [start_time |-> tms[1], anim_time |-> tms[2],
                               child |-> IF none THEN 0
                                         ELSE Len(added) + 1,
                               first |-> NoTime])
    /\ ev_out' = NoEvent
    /\ gen' = [gen EXCEPT !.dirty = TRUE]
    /\ r_out' = NoRender
    /\ UNCHANGED << smaVars, motionVars, zoomVars, moreVars, cls, attrs, offsets, sizes,
                    grid, transpose >>

\* ui.reopen(w, True), ui.py lines 115-127, for the container under test
\* w: current is pushed, w is made current and w.children[:] = [ ]
BoxClear ==
    /\ ReopenUnderTest
    /\ children' = << >>
    /\ r_out' = NoRender
    /\ ev_out' = NoEvent
    /\ gen' = [gen EXCEPT !.dirty = TRUE]
    /\ UNCHANGED << smaVars, motionVars, zoomVars, notUI,
                    cls, self_child, attrs,
                    offsets, sizes, start_times, anim_times, grid, transpose,
                    added, drawn >>

\* child.place(rv, x, y, w, h, surf) for a child with the default
\* (top-left) placement: the offset it is blitted at
Place(x, y, w, h, sz) == << x, y >>

\* the size of the Render a child returns
SizeOf(c) == << c.w, c.h >>

\* the render of a child: who, the area offered and the times
ChildCall(c, w, h, s, a) == [id |-> c.id, w |-> w, h |-> h, st |-> s, at |-> a]

\* the history after a render call: it started, wrote the lists named in
\* wrote, and completed or not
NextGen(wrote, ok) ==
    [n |-> gen.n + 1,
     offsets |-> IF "offsets" \in wrote THEN gen.n + 1 ELSE gen.offsets,
     sizes |-> IF "sizes" \in wrote THEN gen.n + 1 ELSE gen.sizes,
     ok |-> IF ok THEN gen.n + 1 ELSE gen.ok,
     dirty |-> FALSE]

\* Container.render, lines 100-102, and Position.render, lines 304-308:
\* render self.child and describe that one child
ContainerRender(area, tm, fk) ==
    /\ cls \in { "Container", "Position" }
    /\ gen.n < MaxRenders
    /\ IF self_child = NoChild \/ fk > 0
       THEN /\ r_out' = [NoRender EXCEPT
                            !.rendered = TRUE,
                            !.err = IF self_child = NoChild
                                    THEN "AttributeError" ELSE "ChildError",
                            !.width = area[1], !.height = area[2],
                            !.frame_time = tm,
                            !.calls = IF self_child = NoChild THEN << >>
                                      ELSE << ChildCall(self_child, area[1],
                                                        area[2], tm, tm) >>]
            /\ gen' = NextGen({}, FALSE)
            /\ UNCHANGED << attrs, offsets, sizes >>
       ELSE /\ r_out' = [NoRender EXCEPT
                            !.rendered = TRUE,
                            !.width = area[1], !.height = area[2],
                            !.frame_time = tm,
                            !.size = SizeOf(self_child),
                            !.calls = << ChildCall(self_child, area[1],
                                                   area[2], tm, tm) >>]
            /\ offsets' = << << 0, 0 >> >>
            /\ sizes' = << SizeOf(self_child) >>
            /\ attrs' = { "offsets", "sizes" }
            /\ gen' = NextGen({ "offsets", "sizes" }, TRUE)
    /\ ev_out' = NoEvent
    /\ UNCHANGED << smaVars, motionVars, zoomVars, moreVars, cls, children, self_child,
                    start_times, anim_times, grid, transpose, added,
                    drawn >>


\* i or it (Fixed.render, lines 200-201): None and 0 are both false
OrTime(i, it) == IF i = NoTime \/ i = 0 THEN it ELSE i

\* the largest element of a finite set of numbers
MaxOf(S) == CHOOSE m \in S : \A x \in S : x <= m

\* the smallest element of a finite set of numbers
MinOf(S) == CHOOSE m \in S : \A x \in S : m <= x

\* Fixed.render, lines 190-219.  Child fk raises while it is rendered
\* (fin = "render") or placed (fin = "place"); fk = 0: no child raises.
FixedRender(area, tm, it, fk, fin) ==
    /\ cls = "Fixed"
    /\ gen.n < MaxRenders
    /\ LET m == MinOf({ Len(children), Len(start_times), Len(anim_times) })
           nst == [i \in 1 .. Len(start_times) |-> OrTime(start_times[i], it)]
           nat == [i \in 1 .. Len(anim_times) |-> OrTime(anim_times[i], it)]
           failing == fk \in 1 .. m
           nr == IF failing THEN fk ELSE m
           ns == IF failing /\ fin = "render" THEN fk - 1
                 ELSE IF failing THEN fk ELSE m
           no == IF failing THEN fk - 1 ELSE m
       IN  /\ start_times' = nst
           /\ anim_times' = nat
           /\ sizes' = [i \in 1 .. ns |-> SizeOf(children[i])]
           /\ offsets' = [i \in 1 .. no |->
                            Place(0, 0, area[1], area[2], SizeOf(children[i]))]
           /\ attrs' = { "offsets", "sizes" }
           /\ r_out' = [rendered |-> TRUE,
                        err |-> IF failing THEN "ChildError" ELSE NoError,
                        width |-> area[1], height |-> area[2],
                        frame_time |-> tm, interact_time |-> it,
                        size |-> area,
                        alloc |-> area,
                        cells |-> [i \in 1 .. ns |->
                                      << 0, 0, area[1], area[2] >>],
                        calls |-> [i \in 1 .. nr |->
                                      ChildCall(children[i], area[1], area[2],
                                                tm - nst[i], tm - nat[i])]]
           /\ gen' = NextGen({ "offsets", "sizes" }, ~ failing)
           /\ drawn' = [i \in 1 .. Len(drawn) |->
                           IF i <= ns /\ drawn[i].first = NoTime
                           THEN [drawn[i] EXCEPT !.first = tm]
                           ELSE drawn[i]]
    /\ ev_out' = NoEvent
    /\ UNCHANGED << smaVars, motionVars, zoomVars, moreVars, cls, children, self_child,
                    grid, transpose, added >>

\* mutant: only a grid with too few children is refused
GridAtLeastFull(n, cols, rows) == n >= cols * rows

\* Grid.render, line 347: the grid is completely full
GridFull(n, cols, rows) == n = cols * rows

\* Grid.render, line 358: children[x + y*cols] = old_children[y + x*rows];
\* the (1-based) index in the old list of the child that moves to index i
TransposeSource(i, cols, rows) ==
    ((i - 1) \div cols) + ((i - 1) % cols) * rows + 1

\* Grid.render, lines 354-358: the transposed list of children
Transposed(cs, cols, rows) ==
    [i \in 1 .. Len(cs) |->
        IF i <= cols * rows THEN cs[TransposeSource(i, cols, rows)]
        ELSE cs[i]]

\* mutant: the flag survives the render
KeepTranspose(f) == f

\* Grid.render, line 352: self.transpose = False
ClearTranspose(f) == FALSE

\* Grid.render, lines 363-369: the area offered to every child
GridAlloc(g, area) ==
    << IF g.xfill THEN (area[1] - (g.cols - 1) * g.padding) \div g.cols
       ELSE area[1],
       IF g.yfill THEN (area[2] - (g.rows - 1) * g.padding) \div g.rows
       ELSE area[2] >>

\* Grid.render, lines 374-385: the size of a cell
GridCell(g, area, szs) ==
    << IF g.xfill THEN GridAlloc(g, area)[1]
       ELSE MaxOf({ 0 } \cup { szs[i][1] : i \in 1 .. Len(szs) }),
       IF g.yfill THEN GridAlloc(g, area)[2]
       ELSE MaxOf({ 0 } \cup { szs[i][2] : i \in 1 .. Len(szs) }) >>

\* mutant: the padding between the cells is left out of their position
GridCellPosTight(i, g, cell) ==
    << ((i - 1) % g.cols) * cell[1], ((i - 1) \div g.cols) * cell[2] >>

\* Grid.render, lines 400-401: the position of the cell of child i
\* (i = x + y*cols + 1)
GridCellPos(i, g, cell) ==
    << ((i - 1) % g.cols) * (cell[1] + g.padding),
       ((i - 1) \div g.cols) * (cell[2] + g.padding) >>

\* Grid.render, lines 387-388: the size of the grid
GridSize(g, cell) ==
    << cell[1] * g.cols + g.padding * (g.cols - 1),
       cell[2] * g.rows + g.padding * (g.rows - 1) >>

\* Grid.render, lines 340-406
GridRender(area, tm, fk, fin) ==
    /\ cls = "Grid"
    /\ gen.n < MaxRenders
    /\ IF ~ GridFull(Len(children), grid.cols, grid.rows)
       THEN /\ r_out' = [NoRender EXCEPT !.rendered = TRUE,
                                         !.err = "Exception",
                                         !.width = area[1],
                                         !.height = area[2],
                                         !.frame_time = tm]
            /\ gen' = NextGen({}, FALSE)
            /\ UNCHANGED << children, transpose, attrs, offsets, sizes >>
       ELSE LET cs == IF transpose
                      THEN Transposed(children, grid.cols, grid.rows)
                      ELSE children
                n == Len(cs)
                cells == grid.cols * grid.rows
                al == GridAlloc(grid, area)
                szs == [i \in 1 .. n |-> SizeOf(cs[i])]
                cell == GridCell(grid, area, szs)
                rfail == fk \in 1 .. n /\ fin = "render"
                pfail == fk \in 1 .. cells /\ fin = "place"
                np == IF pfail THEN fk ELSE cells
                rect(i) == << GridCellPos(i, grid, cell)[1],
                              GridCellPos(i, grid, cell)[2],
                              cell[1], cell[2] >>
            IN  /\ children' = cs
                /\ transpose' = IF transpose THEN ClearTranspose(transpose)
                                ELSE transpose
                /\ IF rfail
                   THEN /\ r_out' =
                              [NoRender EXCEPT
                                  !.rendered = TRUE, !.err = "ChildError",
                                  !.width = area[1], !.height = area[2],
                                  !.frame_time = tm, !.alloc = al,
                                  !.calls = [i \in 1 .. fk |->
                                      ChildCall(cs[i], al[1], al[2], tm, tm)]]
                        /\ gen' = NextGen({}, FALSE)
                        /\ UNCHANGED << attrs, offsets, sizes >>
                   ELSE /\ sizes' = szs
                        /\ offsets' =
                              [i \in 1 .. (IF pfail THEN fk - 1 ELSE cells) |->
                                  Place(rect(i)[1], rect(i)[2], cell[1],
                                        cell[2], szs[i])]
                        /\ attrs' = { "offsets", "sizes" }
                        /\ r_out' =
                              [rendered |-> TRUE,
                               err |-> IF pfail THEN "ChildError" ELSE NoError,
                               width |-> area[1], height |-> area[2],
                               frame_time |-> tm, interact_time |-> 0,
                               size |-> GridSize(grid, cell),
                               alloc |-> al,
                               cells |-> [i \in 1 .. np |-> rect(i)],
                               calls |-> [i \in 1 .. n |->
                                   ChildCall(cs[i], al[1], al[2], tm, tm)]]
                        /\ gen' = NextGen({ "offsets", "sizes" }, ~ pfail)
    /\ ev_out' = NoEvent
    /\ UNCHANGED << smaVars, motionVars, zoomVars, moreVars, cls, self_child,
                    start_times, anim_times, grid, added, drawn >>


\* the points an event is dispatched at
Points == { << 50, 40 >> }

\* the sets of children that return a result for the event
HandlerSets ==
    { H \in SUBSET { children[i].id :
                        i \in 1 .. MinOf({ Len(children), MaxChildren }) } :
         Cardinality(H) <= 2 }

\* Container.event, lines 107-116, and Fixed.event, lines 222-236: the
\* children are zipped with the offsets (Fixed: and the start times), the
\* pairs are walked last to first until a child returns a result.  H is the
\* set of children that return one (their identity stands for it), et the
\* time of the event.
BoxEvent(pt, et, H) ==
    /\ cls # "None"
    /\ IF "offsets" \notin attrs
       THEN ev_out' = [NoEvent EXCEPT !.called = TRUE, !.x = pt[1],
                                      !.y = pt[2], !.handlers = H,
                                      !.err = "AttributeError"]
       ELSE LET m == IF cls = "Fixed"
                     THEN MinOf({ Len(children), Len(offsets),
                                  Len(start_times) })
                     ELSE MinOf({ Len(children), Len(offsets) })
                hs == { i \in 1 .. m : children[i].id \in H }
                lo == IF hs = {} THEN 1 ELSE MaxOf(hs)
                cst(i) == IF cls = "Fixed"
                          THEN IF start_times[i] = NoTime THEN 0
                               ELSE et - start_times[i]
                          ELSE et
            IN  ev_out' =
                   [called |-> TRUE, err |-> NoError,
                    x |-> pt[1], y |-> pt[2], handlers |-> H,
                    calls |-> [j \in 1 .. (m - lo + 1) |->
                                 [id |-> children[m - j + 1].id,
                                  x |-> pt[1] - offsets[m - j + 1][1],
                                  y |-> pt[2] - offsets[m - j + 1][2],
                                  st |-> cst(m - j + 1)]],
                    result |-> IF hs = {} THEN 0 ELSE children[lo].id]
    /\ UNCHANGED << smaVars, motionVars, zoomVars, moreVars, cls, children, self_child,
                    attrs, offsets, sizes, start_times, anim_times, grid,
                    transpose, r_out, added, drawn, gen >>

BoxNext ==
    \/ BoxAdd
    \/ \E tms \in AddTimes : FixedAdd(FALSE, tms)
    \/ FixedAdd(TRUE, << 2, 1 >>)
    \/ BoxClear
    \/ \E area \in Areas, tm \in FrameTimes, fk \in 0 .. 1 :
          ContainerRender(area, tm, fk)
    \/ \E area \in Areas, tm \in FrameTimes, it \in InteractTimes,
          fk \in 0 .. MaxFail, fin \in { "render", "place" } :
          FixedRender(area, tm, it, fk, fin)
    \/ \E pt \in Points, et \in EventTimes, H \in HandlerSets :
          BoxEvent(pt, et, H)

\* an empty container, every other object unused
StartBox ==
    /\ SMAParked /\ MotionParked /\ ZoomParked /\ NotUIParked
    /\ InitUI /\ InitBox

SpecBox == StartBox /\ [][BoxNext]_vars

GridNext ==
    \/ BoxAdd
    \/ BoxClear
    \/ \E area \in Areas, tm \in FrameTimes,
          fk \in { 0, 1 }, fin \in { "render", "place" } :
          GridRender(area, tm, fk, fin)
    \/ \E pt \in Points, et \in EventTimes, H \in HandlerSets :
          BoxEvent(pt, et, H)

\* an empty Grid, every other object unused
StartGrid ==
    /\ SMAParked /\ MotionParked /\ ZoomParked /\ NotUIParked
    /\ InitUI /\ InitGrid

SpecGrid == StartGrid /\ [][GridNext]_vars

\* the latest render call completed and the children did not change since
RenderedNow == gen.n > 0 /\ gen.ok = gen.n /\ ~ gen.dirty

\* C15: after every completed render the lists offsets and sizes are as
\* long as children, and both were written by that render.
C15_ListsMatchChildren ==
    RenderedNow =>
        /\ Len(offsets) = Len(children)
        /\ Len(sizes) = Len(children)
        /\ gen.offsets = gen.n /\ gen.sizes = gen.n

\* C16: at every event call offsets and sizes come from the same completed
\* render and have the same length, also after an aborted render.
C16_AtomicPair ==
    ev_out.called =>
        /\ gen.offsets = gen.sizes
        /\ gen.offsets = gen.ok
        /\ Len(offsets) = Len(sizes)

\* C17: an event that follows a completed render of the present children is
\* offered to them last added first, each with the coordinates translated by
\* its own offset, up to and including the first child that returns a
\* result; that result is returned, null when no child returns one.
C17_ReverseDispatch ==
    (cls \in { "Container", "Position", "Fixed" } /\ RenderedNow
        /\ ev_out.called /\ ev_out.err = NoError) =>
        LET n == Len(children)
            hs == { i \in 1 .. n : children[i].id \in ev_out.handlers }
            lo == IF hs = {} THEN 1 ELSE MaxOf(hs)
        IN  /\ Len(offsets) = n
            /\ Len(ev_out.calls) = IF n = 0 THEN 0 ELSE n - lo + 1
            /\ \A j \in 1 .. Len(ev_out.calls) :
                  /\ ev_out.calls[j].id = children[n - j + 1].id
                  /\ ev_out.calls[j].x = ev_out.x - offsets[n - j + 1][1]
                  /\ ev_out.calls[j].y = ev_out.y - offsets[n - j + 1][2]
            /\ ev_out.result = IF hs = {} THEN 0 ELSE children[lo].id

\* the number of cells of the grid under test
Cells == grid.cols * grid.rows

\* C18: a render of a Grid whose number of children differs from cols*rows
\* raises, renders no child and leaves the children, the transpose flag,
\* offsets and sizes as they were.
C18_FullGridRequired ==
    [][ (cls = "Grid" /\ gen'.n = gen.n + 1 /\ Len(children) # Cells) =>
           /\ r_out'.err = "Exception"
           /\ r_out'.calls = << >>
           /\ children' = children
           /\ transpose' = transpose
           /\ offsets' = offsets
           /\ sizes' = sizes
           /\ attrs' = attrs ]_vars

\* a grid that was rendered once is rendered again with one child too many
C18_Witness ==
    /\ cls = "Grid"
    /\ r_out.err = "Exception"
    /\ Len(children) = Cells + 1
    /\ offsets # << >>
    /\ r_out.calls = << >>

\* C19: in a Grid created with transpose=True that holds the cols*rows
\* children it was given, after a successful render (the first or a later
\* one) the children are a permutation of the children added, and the child
\* added k-th (from 0) is at column k div rows and row k mod rows, that is
\* at index (k div rows) + (k mod rows) * cols.
C19_TransposeOnce ==
    (cls = "Grid" /\ grid.transpose /\ gen.ok > 0
        /\ Len(children) = Cells /\ Len(added) = Cells) =>
        /\ { children[i] : i \in 1 .. Cells } = { added[i] : i \in 1 .. Cells }
        /\ \A k \in 0 .. (Cells - 1) :
              children[(k \div grid.rows) + (k % grid.rows) * grid.cols + 1]
                 = added[k + 1]

\* a 3 by 2 grid after its second render: the order differs from the order
\* of insertion
C19_Witness ==
    /\ cls = "Grid" /\ grid.transpose /\ grid.cols = 3 /\ grid.rows = 2
    /\ gen.n = 2 /\ gen.ok = 2
    /\ Len(children) = Cells /\ Len(added) = Cells
    /\ children # added
    /\ children[2] = added[3]

\* the width and height of a cell as C20 states them
StatedCell ==
    << IF grid.xfill
       THEN (r_out.width - (grid.cols - 1) * grid.padding) \div grid.cols
       ELSE MaxOf({ children[i].w : i \in 1 .. Len(children) }),
       IF grid.yfill
       THEN (r_out.height - (grid.rows - 1) * grid.padding) \div grid.rows
       ELSE MaxOf({ children[i].h : i \in 1 .. Len(children) }) >>

\* C20: after a successful render of a Grid every child was rendered with
\* the same allocated size, every cell has the size (cw, ch), the child at
\* index x + y*cols is placed in the cell at (x*(cw+padding),
\* y*(ch+padding)), and the size of the Grid is
\* (cw*cols + padding*(cols-1), ch*rows + padding*(rows-1)).
C20_GridGeometry ==
    (cls = "Grid" /\ r_out.rendered /\ r_out.err = NoError) =>
        LET cw == StatedCell[1]
            ch == StatedCell[2]
            pad == grid.padding
        IN  /\ Len(r_out.calls) = Cells
            /\ \A i \in 1 .. Cells :
                  /\ r_out.calls[i].id = children[i].id
                  /\ r_out.calls[i].w = r_out.calls[1].w
                  /\ r_out.calls[i].h = r_out.calls[1].h
            /\ \A x \in 0 .. (grid.cols - 1), y \in 0 .. (grid.rows - 1) :
                  r_out.cells[x + y * grid.cols + 1]
                     = << x * (cw + pad), y * (ch + pad), cw, ch >>
            /\ r_out.size = << cw * grid.cols + pad * (grid.cols - 1),
                               ch * grid.rows + pad * (grid.rows - 1) >>

\* a padded grid of several columns and rows whose cells take the size of
\* the largest child
C20_Witness ==
    /\ cls = "Grid" /\ r_out.rendered /\ r_out.err = NoError
    /\ grid.padding > 0 /\ grid.cols >= 2 /\ grid.rows >= 2
    /\ ~ grid.xfill /\ ~ grid.yfill
    /\ r_out.cells[Cells] # r_out.cells[1]
    /\ \E i \in 1 .. Cells : SizeOf(children[i]) # << r_out.cells[1][3],
                                                      r_out.cells[1][4] >>

(* ======================================================================= *)
(* MultiBox (layout.py, lines 408-516).  A child renders at its own size,  *)
(* whatever space it is offered.                                           *)
(* ======================================================================= *)

\* none of the objects of the earlier sections is under test
OldParked == SMAParked /\ MotionParked /\ ZoomParked /\ BoxParked

oldVars == << smaVars, motionVars, zoomVars, boxVars >>

\* a MultiBox holds at most MaxBoxChildren children
MaxBoxChildren == 3

\* the sizes a child of a MultiBox renders at
BoxShapes == { << 10, 8 >>, << 20, 12 >>, << 30, 5 >> }

\* the box_spacing of the style
Spacings == { 0, 5 }

\* the box_layout of the style and the layout given to the constructor
Layouts == { << "None", "horizontal" >>, << "None", "vertical" >>,
             << "horizontal", "vertical" >>, << "None", "None" >> }

\* the areas a MultiBox is rendered in
BoxAreas == { << 100, 60 >> }

\* MultiBox.__init__, lines 410-417
InitMBox ==
    /\ \E l \in Layouts, sp \in Spacings :
          mbox = [layout |-> l[1], default_layout |-> l[2], spacing |-> sp,
                  children |-> << >>, offsets |-> << >>, sizes |-> << >>]
    /\ mbox_out = NoBoxRender

\* Container.add, lines 87-96, on a MultiBox
MBoxAdd ==
    /\ Len(mbox.children) < MaxBoxChildren
    /\ \E sz \in BoxShapes :
          mbox' = [mbox EXCEPT !.children = Append(@, sz)]
    /\ mbox_out' = NoBoxRender
    /\ UNCHANGED << oldVars, notMBox >>

\* MultiBox.render, lines 421-425: the layout in force
BoxLayout(b) == IF b.layout = "None" THEN b.default_layout ELSE b.layout

\* the extent of a size along the layout axis (1: x, 2: y)
Along(sz, axis) == sz[axis]

\* the value of xo (yo) after the first k children were rendered
\* (lines 441-451 and 486-497)
RECURSIVE RunOffset(_, _, _, _)
RunOffset(cs, k, axis, padding) ==
    IF k = 0 THEN 0
    ELSE RunOffset(cs, k - 1, axis, padding) + Along(cs[k], axis) + padding

\* the value of myheight (mywidth) after all children were rendered
\* (lines 439, 453 and 484, 499)
RECURSIVE RunMax(_, _, _)
RunMax(cs, k, axis) ==
    IF k = 0 THEN 0
    ELSE LET m == RunMax(cs, k - 1, axis)
         IN  IF cs[k][axis] > m THEN cs[k][axis] ELSE m

\* MultiBox.render, lines 419-516
MBoxRender(area) ==
    /\ LET cs == mbox.children
           n == Len(cs)
           padding == mbox.spacing
           horiz == BoxLayout(mbox) = "horizontal"
           axis == IF horiz THEN 1 ELSE 2
           cross == IF horiz THEN 2 ELSE 1
           my == RunMax(cs, n, cross)
           total == RunOffset(cs, n, axis, padding) - padding
           place(i) == IF horiz
                       THEN << RunOffset(cs, i - 1, 1, padding), 0,
                               cs[i][1], my >>
                       ELSE << 0, RunOffset(cs, i - 1, 2, padding),
                               my, cs[i][2] >>
       IN  /\ mbox' = [mbox EXCEPT
                          !.sizes = cs,
                          !.offsets = [i \in 1 .. n |->
                                          Place(place(i)[1], place(i)[2],
                                                place(i)[3], place(i)[4],
                                                cs[i])]]
           /\ mbox_out' =
                 [rendered |-> TRUE, width |-> area[1], height |-> area[2],
                  size |-> IF horiz THEN << total, my >> ELSE << my, total >>,
                  calls |-> [i \in 1 .. n |->
                     IF horiz
                     THEN << area[1] - RunOffset(cs, i - 1, 1, padding),
                             area[2] >>
                     ELSE << area[1],
                             area[2] - RunOffset(cs, i - 1, 2, padding) >>],
                  places |-> [i \in 1 .. n |-> place(i)]]
    /\ UNCHANGED << oldVars, notMBox >>

\* ui.reopen(w, True), ui.py lines 115-127, for the MultiBox
MBoxClear ==
    /\ ReopenUnderTest
    /\ mbox' = [mbox EXCEPT !.children = << >>]
    /\ mbox_out' = NoBoxRender
    /\ UNCHANGED << oldVars, animationVars, blinkVars, windowVars >>

MBoxNext ==
    \/ MBoxAdd
    \/ MBoxClear
    \/ \E area \in BoxAreas : MBoxRender(area)

\* a MultiBox, every other object unused
StartMBox ==
    /\ OldParked /\ AnimationParked /\ BlinkParked /\ WindowParked
    /\ InitUI /\ InitMBox

SpecMBox == StartMBox /\ [][MBoxNext]_vars

\* the sum of the extents of the first k children along an axis
RECURSIVE SumExtent(_, _, _)
SumExtent(cs, k, axis) ==
    IF k = 0 THEN 0 ELSE SumExtent(cs, k - 1, axis) + cs[k][axis]

\* C21: after a render of a MultiBox with n children the extent along the
\* layout axis is the sum of the children's extents plus spacing * (n-1)
\* (0 for n = 0), the extent across is the largest child extent, and child i
\* is placed at the sum over j < i of (extent_j + spacing).
C21_BoxExtent ==
    mbox_out.rendered =>
        LET cs == mbox.children
            n == Len(cs)
            axis == IF BoxLayout(mbox) = "horizontal" THEN 1 ELSE 2
            cross == 3 - axis
        IN  /\ mbox_out.size[axis] =
                  IF n = 0 THEN 0
                  ELSE SumExtent(cs, n, axis) + mbox.spacing * (n - 1)
            /\ mbox_out.size[cross] =
                  MaxOf({ 0 } \cup { cs[i][cross] : i \in 1 .. n })
            /\ \A i \in 1 .. n :
                  /\ mbox_out.places[i][axis] =
                        SumExtent(cs, i - 1, axis) + mbox.spacing * (i - 1)
                  /\ mbox_out.places[i][cross] = 0

(* ======================================================================= *)
(* Animation (anim.py, lines 292-353).  Times and delays are whole ticks.  *)
(* ======================================================================= *)

\* an Animation is given at most MaxAnimArgs arguments
MaxAnimArgs == 5

\* renders happen at times 0 .. MaxAnimTime
MaxAnimTime == 6

\* the delays given to an Animation
AnimDelays == { 0, 1, 2 }

\* One year, give or take (line 322)
Year == 31557600

\* the image given as argument 2j - 1
AnimImage(j) == CASE j = 1 -> "i1" [] j = 2 -> "i2" [] OTHER -> "i3"

\* mutant: a missing last delay is not made up for
AnimationInitNoYear(n, dl, tb) ==
    [images |-> [j \in 1 .. ((n + 1) \div 2) |-> AnimImage(j)],
     delays |-> [j \in 1 .. (n \div 2) |-> dl[j]],
     anim_timebase |-> tb,
     nargs |-> n]

\* Animation.__init__, lines 312-322, for n arguments of which the even
\* ones are the delays dl: odd arguments are images, and a missing last
\* delay is a year
AnimationInit(n, dl, tb) ==
    LET ni == (n + 1) \div 2
        nd == n \div 2
    IN  [images |-> [j \in 1 .. ni |-> AnimImage(j)],
         delays |-> IF ni > nd THEN Append([j \in 1 .. nd |-> dl[j]], Year)
                    ELSE [j \in 1 .. nd |-> dl[j]],
         anim_timebase |-> tb,
         nargs |-> n]

\* sum(self.delays)
RECURSIVE SumSeq(_, _)
SumSeq(q, k) == IF k = 0 THEN 0 ELSE SumSeq(q, k - 1) + q[k]

\* mutant: the scan compares every delay with the same t
ScanRestKeep(tt, dly) == tt

\* Animation.render, line 348: t = t - delay
ScanRest(tt, dly) == tt - dly

\* Animation.render, lines 336-348: the scan over zip(images, delays) from
\* pair k on; index 0 when the loop ends without a frame
RECURSIVE AnimScan(_, _, _)
AnimScan(a, k, tt) ==
    IF k > MinOf({ Len(a.images), Len(a.delays) })
    THEN [index |-> 0, redraw |-> NoRedraw]
    ELSE IF tt < a.delays[k]
         THEN [index |-> k, redraw |-> a.delays[k] - tt]
         ELSE AnimScan(a, k + 1, ScanRest(tt, a.delays[k]))

InitAnimation ==
    /\ \E n \in 0 .. MaxAnimArgs, tb \in BOOLEAN :
          \E dl \in [1 .. (n \div 2) -> AnimDelays] :
             animation = AnimationInit(n, dl, tb)
    /\ animation_out = NoAnimRender

\* Animation.render, lines 324-348
AnimationRender(s, a) ==
    /\ LET total == SumSeq(animation.delays, Len(animation.delays))
           base == IF animation.anim_timebase THEN a ELSE s
       IN  IF total = 0
           THEN animation_out' = [NoAnimRender EXCEPT
                                     !.rendered = TRUE, !.st = s, !.at = a,
                                     !.err = "ZeroDivisionError"]
           ELSE LET r == AnimScan(animation, 1, base % total)
                IN  animation_out' =
                       [rendered |-> TRUE, st |-> s, at |-> a,
                        err |-> NoError,
                        shown |-> IF r.index = 0 THEN None
                                  ELSE animation.images[r.index],
                        index |-> r.index,
                        redraw |-> r.redraw]
    /\ UNCHANGED << oldVars, notAnimation, animation >>

AnimationNext ==
    \E s \in 0 .. MaxAnimTime, a \in 0 .. MaxAnimTime : AnimationRender(s, a)

\* an Animation, every other object unused
StartAnimation == OldParked /\ NotAnimationParked /\ InitAnimation

SpecAnimation == StartAnimation /\ [][AnimationNext]_vars

\* the elapsed time of the last render of the Animation
animT == IF animation.anim_timebase THEN animation_out.at ELSE animation_out.st

\* every delay of the Animation is positive
PositiveDelays ==
    /\ animation.delays # << >>
    /\ \A j \in 1 .. Len(animation.delays) : animation.delays[j] > 0

\* C22: an Animation whose delays are all positive shows, at elapsed time t,
\* the image i_k for the one k with d_1+..+d_(k-1) <= t mod D < d_1+..+d_k,
\* and requests a redraw after d_1+..+d_k - (t mod D) > 0.
C22_FrameByModulo ==
    (animation_out.rendered /\ PositiveDelays) =>
        LET dls == animation.delays
            D == SumSeq(dls, Len(dls))
            tm == animT % D
            ks == { k \in 1 .. Len(dls) :
                      SumSeq(dls, k - 1) <= tm /\ tm < SumSeq(dls, k) }
        IN  /\ Cardinality(ks) = 1
            /\ animation_out.err = NoError
            /\ animation_out.index \in ks
            /\ animation_out.shown = animation.images[animation_out.index]
            /\ animation_out.redraw =
                  SumSeq(dls, animation_out.index) - tm
            /\ animation_out.redraw > 0

\* the sequence has wrapped around to its first image, and a later image
\* is shown inside the second cycle
C22_Witness ==
    /\ animation_out.rendered /\ PositiveDelays
    /\ Len(animation.images) = 2
    /\ animation.delays = << 1, 2 >>
    /\ animT = 4
    /\ animation_out.shown = "i2"
    /\ animation_out.redraw = 2

(* ======================================================================= *)
(* Blink (anim.py, lines 356-472).  Times and durations are whole ticks,   *)
(* alphas are whole numbers of AlphaUnit-ths; the alpha of a render is     *)
(* kept as a fraction.  Durations are amounts of time: none is negative.   *)
(* ======================================================================= *)

\* renders happen at times 0 .. MaxBlinkTime
MaxBlinkTime == 3

\* the durations of the phases
BlinkDurations == { 0, 1, 2 }

\* the (high, low) alphas
BlinkAlphas == { << 4, 0 >>, << 3, 1 >> }

\* the offsets
BlinkOffsets == { 0 - 1, 0, 1 }

\* Blink.__init__, lines 387-399.  can_map is not a field of the Blink:
\* it is renpy.display.module.can_map, set when the module is imported
\* (module.py, lines 159-178: True when the _renpy extension is there).
BlinkInit(on, off, rise, set, high, low, offset, tb, can_map) ==
    [on |-> on, off |-> off, rise |-> rise, set |-> set, high |-> high,
     low |-> low, offset |-> offset, anim_timebase |-> tb,
     cycle |-> on + set + off + rise, can_map |-> can_map]

InitBlink ==
    /\ \E on \in BlinkDurations, off \in BlinkDurations,
          rise \in BlinkDurations, set \in BlinkDurations,
          al \in BlinkAlphas, offset \in BlinkOffsets, tb \in BOOLEAN,
          can_map \in BOOLEAN :
          blink = BlinkInit(on, off, rise, set, al[1], al[2], offset, tb,
                            can_map)
    /\ blink_out = NoBlinkRender

\* renpy.display.module.map (module.py, lines 163-173) calls endian_order,
\* whose definition is commented out (lines 140-157)
ModuleMap == "NameError"

\* 0 <= time < duration (lines 415, 421, 428, 434)
InPhase(time, dur) == 0 <= time /\ time < dur

\* mutant: the ramp runs the other way
RampReversed(from, to, time, dur) ==
    [num |-> from * time + to * (dur - time), den |-> dur]

\* lines 423-424 and 436-437: frac = time / dur and
\* alpha = to * frac + from * (1.0 - frac)
Ramp(from, to, time, dur) ==
    [num |-> to * time + from * (dur - time), den |-> dur]

\* a constant alpha
Flat(a) == [num |-> a, den |-> 1]

\* Blink.render, lines 403-472.  alpha and wait are the local variables
\* alpha and delay;
\* redraw is the delay of the redraw request of line 470, which is reached
\* only with can_map and, unless alpha is 0, after module.map.
BlinkRender(s, a) ==
    /\ IF blink.cycle = 0
       THEN blink_out' = [NoBlinkRender EXCEPT
                             !.rendered = TRUE, !.st = s, !.at = a,
                             !.err = "ZeroDivisionError"]
       ELSE LET tt == IF blink.anim_timebase THEN a ELSE s
                t0 == (blink.offset + tt) % blink.cycle
                t1 == t0 - blink.on
                t2 == t1 - blink.set
                t3 == t2 - blink.off
                on == InPhase(t0, blink.on)
                set == InPhase(t1, blink.set)
                off == InPhase(t2, blink.off)
                rise == InPhase(t3, blink.rise)
                fired == (IF on THEN { "on" } ELSE {})
                            \cup (IF set THEN { "set" } ELSE {})
                            \cup (IF off THEN { "off" } ELSE {})
                            \cup (IF rise THEN { "rise" } ELSE {})
                alpha == IF rise
                         THEN Ramp(blink.low, blink.high, t3, blink.rise)
                         ELSE IF off THEN Flat(blink.low)
                         ELSE IF set
                              THEN Ramp(blink.high, blink.low, t1, blink.set)
                         ELSE Flat(blink.high)
                wait == IF rise THEN 0
                        ELSE IF off THEN blink.off - t2
                        ELSE IF set THEN 0
                        ELSE IF on THEN blink.on - t0
                        ELSE NoRedraw
                error == IF ~ blink.can_map THEN NoError
                         ELSE IF alpha.num # 0 THEN ModuleMap
                         ELSE IF fired = {} THEN "UnboundLocalError"
                         ELSE NoError
            IN  blink_out' =
                   [rendered |-> TRUE, st |-> s, at |-> a,
                    err |-> error,
                    fired |-> fired,
                    alpha |-> alpha,
                    delay |-> wait,
                    redraw |-> IF blink.can_map /\ error = NoError
                               THEN wait ELSE NoRedraw]
    /\ UNCHANGED << oldVars, notBlink, blink >>

BlinkNext ==
    \E s \in 0 .. MaxBlinkTime, a \in 0 .. MaxBlinkTime : BlinkRender(s, a)

\* a Blink, every other object unused
StartBlink == OldParked /\ NotBlinkParked /\ InitBlink

SpecBlink == StartBlink /\ [][BlinkNext]_vars

\* (offset + t) mod cycle at the last render of the Blink
blinkT ==
    (blink.offset + (IF blink.anim_timebase THEN blink_out.at
                     ELSE blink_out.st)) % blink.cycle

\* the phases as C23 lays them out on the cycle: from, to, name
StatedPhases ==
    { << 0, blink.on, "on" >>,
      << blink.on, blink.on + blink.set, "set" >>,
      << blink.on + blink.set, blink.on + blink.set + blink.off, "off" >>,
      << blink.on + blink.set + blink.off, blink.cycle, "rise" >> }

\* C23: with cycle > 0, (offset + t) mod cycle lies in exactly one of the
\* phases on, set, off, rise (in that order on the cycle); alpha is high in
\* on, low in off, linear from high to low across set and from low to high
\* across rise, always between low and high; the redraw is requested after
\* the rest of the phase in on and off, and after 0 in set and rise.
C23_FourPhases ==
    (blink_out.rendered /\ blink.cycle > 0) =>
        LET tm == blinkT
            in == { p \in StatedPhases : p[1] <= tm /\ tm < p[2] }
            p == CHOOSE q \in in : TRUE
            al == blink_out.alpha
            lo == MinOf({ blink.low, blink.high })
            hi == MaxOf({ blink.low, blink.high })
        IN  /\ Cardinality(in) = 1
            /\ blink_out.err = NoError
            /\ blink_out.fired = { p[3] }
            /\ al.den > 0
            /\ lo * al.den <= al.num /\ al.num <= hi * al.den
            /\ p[3] = "on" => /\ al.num = blink.high * al.den
                              /\ blink_out.redraw = p[2] - tm
            /\ p[3] = "off" => /\ al.num = blink.low * al.den
                               /\ blink_out.redraw = p[2] - tm
            /\ p[3] = "set" =>
                  /\ al.num * (p[2] - p[1]) =
                        al.den * (blink.high * (p[2] - p[1])
                                    + (blink.low - blink.high) * (tm - p[1]))
                  /\ blink_out.redraw = 0
            /\ p[3] = "rise" =>
                  /\ al.num * (p[2] - p[1]) =
                        al.den * (blink.low * (p[2] - p[1])
                                    + (blink.high - blink.low) * (tm - p[1]))
                  /\ blink_out.redraw = 0

\* a render half way up the rise of a Blink with an offset
C23_Witness ==
    /\ blink_out.rendered /\ blink.cycle > 0
    /\ blink.offset # 0
    /\ blink.on > 0 /\ blink.set > 0 /\ blink.off > 0 /\ blink.rise = 2
    /\ blink_out.fired = { "rise" }
    /\ blink.low * blink_out.alpha.den < blink_out.alpha.num
    /\ blink_out.alpha.num < blink.high * blink_out.alpha.den

(* ======================================================================= *)
(* Window (layout.py, lines 520-615).  The child renders at its own size,  *)
(* whatever space it is offered.  A float style value is a whole number of *)
(* tenths, and every length that render computes is kept in tenths of a    *)
(* pixel, since scale can return a fractional length.                      *)
(* ======================================================================= *)

\* the denominator of a float style value
FracDen == 10

\* the areas a Window is rendered in
WindowAreas == { << 100, 60 >>, << 200, 80 >>, << 45, 33 >> }

\* the sizes the child of a Window renders at
WindowChildren == { << 20, 10 >>, << 50, 30 >> }

\* child is None: Window(None), which ui.window builds before the child is
\* added
NoWindowChild == << -1, -1 >>

\* the minimums of the style
XMinimums == { Pixels(0), Pixels(70), Fraction(5) }

YMinimums == { Pixels(0), Pixels(40) }

\* the margins and the paddings of the style: left, right, top, bottom
WindowMargins == { << 0, 0, 0, 0 >>, << 10, 6, 4, 2 >> }

WindowPaddings == { << 0, 0, 0, 0 >>, << 3, 5, 1, 7 >> }

\* Window.__init__, lines 536-539: Container.__init__ leaves child None and
\* children empty, and add(child) returns at once when child is None
InitWindow ==
    /\ \E xm \in XMinimums, ym \in YMinimums, ms \in WindowMargins,
          ps \in WindowPaddings, xf \in BOOLEAN, yf \in BOOLEAN,
          bg \in BOOLEAN, c \in WindowChildren \cup { NoWindowChild } :
          window = [xminimum |-> xm, yminimum |-> ym, margins |-> ms,
                    paddings |-> ps, xfill |-> xf, yfill |-> yf,
                    background |-> bg, child |-> c,
                    children |-> IF c = NoWindowChild THEN << >>
                                 ELSE << c >>,
                    offsets |-> << >>, sizes |-> << >>]
    /\ window_out = NoWindowRender

\* a whole number of pixels, in tenths
Tenths(n) == n * FracDen

\* scale(num, base), lines 11-20: num * base for a float, num itself
\* otherwise; the value in tenths of a pixel
scale(num, base) == IF num.float THEN num.v * base ELSE Tenths(num.v)

\* max(a, b)
Max2(a, b) == IF a >= b THEN a ELSE b

\* mutant: the padding is left out of the size
ShrinkNoPadding(cmargin, cpadding, sz, minimum) ==
    Max2(cmargin + sz, minimum)

\* Window.render, lines 585 and 588: the size of a window that does not fill
ShrinkToFit(cmargin, cpadding, sz, minimum) ==
    Max2(cmargin + cpadding + sz, minimum)

\* Window.render, lines 546-615, as a function of the window and the area
WindowResult(w, area) ==
    LET xminimum == scale(w.xminimum, area[1])
        yminimum == scale(w.yminimum, area[2])
        cxmargin == Tenths(w.margins[1] + w.margins[2])
        cymargin == Tenths(w.margins[3] + w.margins[4])
        cxpadding == Tenths(w.paddings[1] + w.paddings[2])
        cypadding == Tenths(w.paddings[3] + w.paddings[4])
        sw == Tenths(w.child[1])
        sh == Tenths(w.child[2])
        width == IF w.xfill THEN Tenths(area[1])
                 ELSE ShrinkToFit(cxmargin, cxpadding, sw, xminimum)
        height == IF w.yfill THEN Tenths(area[2])
                  ELSE ShrinkToFit(cymargin, cypadding, sh, yminimum)
    IN  [rendered |-> TRUE, err |-> NoError,
         width |-> area[1], height |-> area[2],
         size |-> << width, height >>,
         child_area |-> << Tenths(area[1]) - cxmargin - cxpadding,
                           Tenths(area[2]) - cymargin - cypadding >>,
         back |-> IF w.background
                  THEN << width - cxmargin, height - cymargin >>
                  ELSE << 0, 0 >>,
         place |-> << Tenths(w.margins[1] + w.paddings[1]),
                      Tenths(w.margins[3] + w.paddings[3]),
                      width - cxmargin - cxpadding,
                      height - cymargin - cypadding >>]

\* Window.render, lines 546-615: self.child is rendered (line 574), which
\* raises when it is None, before anything is written
WindowRender(area) ==
    /\ IF window.child = NoWindowChild
       THEN /\ window_out' = [NoWindowRender EXCEPT !.err = "AttributeError"]
            /\ UNCHANGED window
       ELSE /\ window_out' = WindowResult(window, area)
            /\ window' = [window EXCEPT
                             !.offsets = << Place(window_out'.place[1],
                                                  window_out'.place[2],
                                                  window_out'.place[3],
                                                  window_out'.place[4],
                                                  window.child) >>,
                             !.sizes = << window.child >>]
    /\ UNCHANGED << oldVars, notWindow >>

\* a Window holds at most MaxWindowChildren children
MaxWindowChildren == 2

\* Container.add(child), lines 87-96, on a Window, for a child that is not
\* None (add(None) returns at once and changes nothing)
WindowAdd(c) ==
    /\ Len(window.children) < MaxWindowChildren
    /\ window' = [window EXCEPT !.children = Append(@, c), !.child = c]
    /\ window_out' = NoWindowRender
    /\ UNCHANGED << oldVars, notWindow >>

\* ui.reopen(w, True), ui.py lines 115-127, for the Window
WindowClear ==
    /\ ReopenUnderTest
    /\ window' = [window EXCEPT !.children = << >>]
    /\ UNCHANGED << oldVars, mboxVars, animationVars, blinkVars,
                    window_out >>

WindowNext ==
    \/ \E area \in WindowAreas : WindowRender(area)
    \/ \E c \in WindowChildren : WindowAdd(c)
    \/ WindowClear

\* a Window, every other object unused
StartWindow ==
    /\ OldParked /\ MBoxParked /\ AnimationParked /\ BlinkParked
    /\ InitUI /\ InitWindow

SpecWindow == StartWindow /\ [][WindowNext]_vars

\* the window with its padding raised by p on all sides
RaisePadding(w, p) ==
    [w EXCEPT !.paddings = [i \in 1 .. 4 |-> w.paddings[i] + p]]

\* the sum of both margins and both paddings of the window on an axis, in
\* pixels
Surround(w, axis) ==
    w.margins[2 * axis - 1] + w.margins[2 * axis]
       + w.paddings[2 * axis - 1] + w.paddings[2 * axis]

\* the minimum of the window on an axis, in the area it was rendered in
MinimumOf(w, axis) ==
    IF axis = 1 THEN scale(w.xminimum, window_out.width)
    ELSE scale(w.yminimum, window_out.height)

\* the window does not fill on the axis
NoFill(w, axis) == IF axis = 1 THEN ~ w.xfill ELSE ~ w.yfill

\* padding is raised by 1 .. MaxRaise
MaxRaise == 2

\* C24: on an axis without fill whose minimum does not bind, the extent of
\* a rendered Window is the child's extent plus both margins plus both
\* paddings (the child's size when these are zero), and raising the padding
\* by p on all sides raises the extent by 2p.
C24_ShrinkToChild ==
    window_out.rendered =>
        \A axis \in 1 .. 2 :
           (NoFill(window, axis)
               /\ Tenths(window.child[axis] + Surround(window, axis))
                     >= MinimumOf(window, axis)) =>
              /\ window_out.size[axis] =
                    Tenths(window.child[axis] + Surround(window, axis))
              /\ Surround(window, axis) = 0 =>
                    window_out.size[axis] = Tenths(window.child[axis])
              /\ \A p \in 1 .. MaxRaise :
                    WindowResult(RaisePadding(window, p),
                                 << window_out.width,
                                    window_out.height >>).size[axis]
                       = window_out.size[axis] + Tenths(2 * p)

\* a window with margins and paddings whose minimums are set but do not bind
C24_Witness ==
    /\ window_out.rendered
    /\ ~ window.xfill /\ ~ window.yfill
    /\ window.margins[1] > 0 /\ window.paddings[1] > 0
    /\ window.xminimum = Pixels(70) /\ window.yminimum = Pixels(40)
    /\ window_out.size = << Tenths(74), Tenths(44) >>

\* C25: on an axis without fill, the extent of a rendered Window less its
\* margins (the child area plus the padding) is at least the minimum of the
\* style.
C25_MinimumCovered ==
    window_out.rendered =>
        \A axis \in 1 .. 2 :
           NoFill(window, axis) =>
              window_out.size[axis]
                    - Tenths(window.margins[2 * axis - 1]
                                + window.margins[2 * axis])
                 >= MinimumOf(window, axis)

(* ======================================================================= *)
(* Fixed over several frames (layout.py, lines 146-236)                    *)
(* ======================================================================= *)

\* the frame times a Fixed is rendered at
FixedFrameTimes == { 4, 6 }

\* Fixed.__init__, lines 161-171
InitFixed == BoxInit("Fixed", NumGrids)

FixedNext ==
    \/ \E tms \in AddTimes : FixedAdd(FALSE, tms)
    \/ FixedAdd(TRUE, << 2, 1 >>)
    \/ BoxClear
    \/ \E area \in BoxAreas, tm \in FixedFrameTimes, it \in InteractTimes,
          fk \in 0 .. 1 :
          FixedRender(area, tm, it, fk, "render")
    \/ \E pt \in Points, et \in EventTimes, H \in HandlerSets :
          BoxEvent(pt, et, H)

\* a Fixed, every other object unused
StartFixed ==
    /\ SMAParked /\ MotionParked /\ ZoomParked /\ NotUIParked
    /\ InitUI /\ InitFixed

SpecFixed == StartFixed /\ [][FixedNext]_vars

\* every entry of the time lists belongs to a child that is still there
TimesAligned ==
    /\ Len(children) = Len(start_times)
    /\ Len(children) = Len(added)

\* C26: an entry added to a Fixed with a null start time (animation time)
\* holds, from the first render that draws its child on, the time of that
\* first draw, so that the child is rendered with the frame time elapsed
\* since then.
C26_StartAtFirstDraw ==
    (cls = "Fixed" /\ TimesAligned) =>
        \A i \in 1 .. Len(drawn) :
           drawn[i].first # NoTime =>
              /\ drawn[i].start_time = NoTime =>
                    /\ start_times[i] = drawn[i].first
                    /\ (r_out.rendered /\ i <= Len(r_out.calls)) =>
                          r_out.calls[i].st = r_out.frame_time - drawn[i].first
              /\ drawn[i].anim_time = NoTime =>
                    /\ anim_times[i] = drawn[i].first
                    /\ (r_out.rendered /\ i <= Len(r_out.calls)) =>
                          r_out.calls[i].at = r_out.frame_time - drawn[i].first

(* ======================================================================= *)
(* The ui construction stack (ui.py, lines 19-127).  A widget is known by  *)
(* its number; widgets[k] holds whether it is a container (it has add and  *)
(* children), whether it was opened for one child, its children and, while *)
(* it was opened for one child and still has none, the target that was     *)
(* current before it was opened.  The calls made on layers                 *)
(* (scene_lists.add) are recorded in ui_out.                               *)
(* ======================================================================= *)

\* at most MaxWidgets widgets are made
MaxWidgets == 3

\* the widgets add is called with, as (container, make_current, once): a
\* Null (line 136), a container that is not made current (add called with
\* its defaults), a box (line 168), a one-child widget (line 253)
AddKinds == { << FALSE, FALSE, FALSE >>, << TRUE, FALSE, FALSE >>,
              << TRUE, TRUE, FALSE >>, << TRUE, TRUE, TRUE >> }

\* the names ui.layer is called with
LayerNames == ConfigLayers \cup TopLayers \cup { "bogus" }

\* isinstance(current, str)
IsLayer(c) == c.kind = "layer"

\* mutant: the oldest entry is taken
StackBottom(stack) == stack[1]

\* current_stack.pop(), line 113: the value
StackTop(stack) == stack[Len(stack)]

\* current_stack.pop(), line 113: what is left
StackRest(stack) == SubSeq(stack, 1, Len(stack) - 1)

\* mutant: interact only minds a widget that waits for its child
RefusedWhenOnce(stack, once) == once

\* interact, line 42: if current_stack
Refused(stack, once) == stack # << >>

\* lines 60-63: widget w is added to the target c, which has its child
AddTo(c, w, ws) ==
    IF IsLayer(c) THEN ws
    ELSE [ws EXCEPT ![c.id].prev = NoCurrent,
                    ![c.id].waiting = FALSE,
                    ![c.id].children = Append(@, w)]

\* line 63: current.add(w) needs a current widget that has the method add
CanAdd(c, ws) == IsLayer(c) \/ ws[c.id].container

\* ui.add(w, make_current, once), lines 50-75, for a new widget w
UIAdd(cont, mc, once) ==
    LET w == Len(widgets) + 1
        made == Append(widgets,
                       [container |-> cont, once |-> once,
                        children |-> << >>,
                        prev |-> NoCurrent, waiting |-> FALSE])
        added_ws == AddTo(current, w, made)
        closing == current_once
        cur1 == IF closing THEN StackTop(current_stack) ELSE current
        stack1 == IF closing THEN StackRest(current_stack)
                  ELSE current_stack
        opens1 == IF closing THEN SubSeq(opens, 1, Len(opens) - 1)
                  ELSE opens
    IN  /\ Len(widgets) < MaxWidgets
        /\ Len(stack1) + (IF mc THEN 1 ELSE 0) <= MaxDepth
        /\ IF ~ CanAdd(current, widgets)
           THEN \* current.add raises at line 63
                /\ widgets' = made
                /\ ui_out' = [NoCall EXCEPT !.op = "add",
                                            !.err = "AttributeError",
                                            !.make_current = mc]
                /\ UNCHANGED << current, current_stack, current_once,
                                opens >>
           ELSE IF closing /\ current_stack = << >>
           THEN \* close() raises at line 108, after line 66
                /\ widgets' = added_ws
                /\ current_once' = FALSE
                /\ ui_out' = [NoCall EXCEPT !.op = "add", !.err = "Exception",
                                            !.added_to = current,
                                            !.make_current = mc]
                /\ UNCHANGED << current, current_stack, opens >>
           ELSE /\ current_once' = once
                /\ current_stack' = IF mc THEN Append(stack1, cur1)
                                    ELSE stack1
                /\ current' = IF mc THEN Widget(w) ELSE cur1
                /\ widgets' = IF mc
                              THEN [added_ws EXCEPT
                                      ![w].prev = IF once THEN cur1
                                                  ELSE NoCurrent,
                                      ![w].waiting = once]
                              ELSE added_ws
                /\ opens' = IF mc THEN Append(opens1, cur1) ELSE opens1
                /\ ui_out' = [NoCall EXCEPT !.op = "add",
                                            !.added_to = current,
                                            !.closed = closing,
                                            !.closed_to =
                                                IF closing THEN cur1
                                                ELSE NoCurrent,
                                            !.make_current = mc]
    /\ UNCHANGED << oldVars, notUI, reopens >>

\* ui.layer(name), lines 78-95
UILayer(n) ==
    /\ IF ~ IsLayer(current)
          \/ (n \notin ConfigLayers /\ n \notin TopLayers)
       THEN /\ ui_out' = [NoCall EXCEPT !.op = "layer", !.name = n,
                                        !.err = "Exception"]
            /\ UNCHANGED << current, current_stack, current_once, opens >>
       ELSE /\ Len(current_stack) < MaxDepth
            /\ current_stack' = Append(current_stack, current)
            /\ current_once' = FALSE
            /\ current' = Layer(n)
            /\ opens' = Append(opens, current)
            /\ ui_out' = [NoCall EXCEPT !.op = "layer", !.name = n]
    /\ UNCHANGED << oldVars, notUI, widgets, reopens >>

\* ui.close(), lines 97-113
UIClose ==
    /\ IF current_stack = << >> \/ current_once
       THEN /\ ui_out' = [NoCall EXCEPT !.op = "close", !.err = "Exception"]
            /\ UNCHANGED << current, current_stack, opens >>
       ELSE /\ current' = StackTop(current_stack)
            /\ current_stack' = StackRest(current_stack)
            /\ opens' = SubSeq(opens, 1, Len(opens) - 1)
            /\ ui_out' = [NoCall EXCEPT !.op = "close", !.closed = TRUE,
                                        !.closed_to = current']
    /\ UNCHANGED << oldVars, notUI, current_once, widgets, reopens >>

\* ui.reopen(w, clear), lines 115-127, for a widget w made before: the
\* push and the assignment of current come first, then the children are
\* emptied, which raises for a widget that has none
UIReopen(w, clear) ==
    /\ w \in 1 .. Len(widgets)
    /\ Len(current_stack) < MaxDepth
    /\ reopens < MaxReopens
    /\ reopens' = reopens + 1
    /\ current_stack' = Append(current_stack, current)
    /\ current' = Widget(w)
    /\ opens' = Append(opens, current)
    /\ widgets' = IF clear /\ widgets[w].container
                  THEN [widgets EXCEPT ![w].children = << >>]
                  ELSE widgets
    /\ ui_out' = [NoCall EXCEPT
                     !.op = "reopen",
                     !.err = IF clear /\ ~ widgets[w].container
                             THEN "AttributeError" ELSE NoError,
                     !.cleared = clear /\ widgets[w].container]
    /\ UNCHANGED << oldVars, notUI, current_once >>

\* ui.interact(), lines 28-48
UIInteract ==
    /\ IF Refused(current_stack, current_once)
       THEN ui_out' = [NoCall EXCEPT !.op = "interact", !.err = "Exception"]
       ELSE ui_out' = [NoCall EXCEPT !.op = "interact", !.entered = TRUE]
    /\ UNCHANGED << oldVars, notUI, current, current_stack, current_once,
                    widgets, opens, reopens >>

UINext ==
    \/ \E k \in AddKinds : UIAdd(k[1], k[2], k[3])
    \/ \E n \in LayerNames : UILayer(n)
    \/ UIClose
    \/ \E w \in 1 .. MaxWidgets, clear \in BOOLEAN : UIReopen(w, clear)
    \/ UIInteract

\* the ui module, every other object unused
StartUI == OldParked /\ NotUIParked /\ InitUI

SpecUI == StartUI /\ [][UINext]_vars

\* the latest ui call raised
Failed == ui_out'.err # NoError

\* the latest ui call left the construction state as it was
StateKept ==
    /\ current' = current
    /\ current_stack' = current_stack
    /\ current_once' = current_once

\* the current target is a one-child widget that still waits for its child
WaitingCurrent ==
    current.kind = "widget" /\ widgets[current.id].waiting

\* C27: ui.close() with an empty stack, ui.close() while the current
\* one-child widget still waits for its child, ui.layer(name) while the
\* current target is a widget, and ui.layer(name) for an unknown name all
\* raise and leave current, current_stack and current_once unchanged.
C27_MisuseFailsFast ==
    [][ /\ (ui_out'.op = "close"
               /\ (current_stack = << >> \/ WaitingCurrent)) =>
              (Failed /\ StateKept)
        /\ (ui_out'.op = "layer"
               /\ (~ IsLayer(current)
                     \/ ui_out'.name \notin ConfigLayers \cup TopLayers)) =>
              (Failed /\ StateKept) ]_vars

\* a widget opened for one child is the current target or is on the stack
OneChildOpen ==
    \E k \in 1 .. Len(widgets) :
       /\ widgets[k].once
       /\ \/ current = Widget(k)
          \/ \E i \in 1 .. Len(current_stack) : current_stack[i] = Widget(k)

\* C28: ui.interact enters the interface only with an empty stack; with a
\* non-empty stack, and so whenever a one-child widget is still open, it
\* raises without entering the interface and without changing the
\* construction state.
C28_InteractNeedsEmptyStack ==
    [][ ui_out'.op = "interact" =>
           /\ ui_out'.entered => current_stack = << >>
           /\ (current_stack # << >> \/ OneChildOpen) =>
                 /\ Failed
                 /\ ~ ui_out'.entered
                 /\ StateKept
                 /\ widgets' = widgets
                 /\ ui_out'.added_to = NoCurrent ]_vars

\* interact was refused while a one-child widget waited for its child
C28_Witness ==
    /\ ui_out.op = "interact"
    /\ ui_out.err # NoError
    /\ current_once
    /\ current.kind = "widget"
    /\ Len(current_stack) = 1

\* C29: the stack is as deep as there are opens not yet closed, and every
\* successful close, automatic or not, makes current the value it had
\* before the most recent open that was not yet closed.
C29_LastInFirstOut ==
    [][ /\ Len(current_stack') = Len(opens')
        /\ ui_out'.closed => ui_out'.closed_to = opens[Len(opens)] ]_vars

\* a one-child widget nested in a box was closed automatically, back to
\* the box, with a layer still below on the stack
C29_Witness ==
    /\ ui_out.op = "add" /\ ui_out.closed
    /\ ui_out.closed_to.kind = "widget"
    /\ current = ui_out.closed_to
    /\ Len(current_stack) = 1
    /\ current_stack[1] = Layer("transient")

\* C30: when a widget is added while a one-child widget waits for its
\* child, the widget becomes the only child of the one-child widget, the
\* one-child widget is closed, and the target of later widgets is the one
\* that was current before the one-child widget was opened (below the new
\* widget, if that is made current).
C30_OneChildThenClose ==
    [][ ui_out'.op = "add" =>
           /\ \A k \in 1 .. Len(widgets) :
                 (widgets[k].waiting
                     /\ ~ \E j \in (k + 1) .. Len(widgets) :
                             widgets[j].waiting) =>
                    /\ ui_out'.added_to = Widget(k)
                    /\ current' # Widget(k)
                    /\ \A i \in 1 .. Len(current_stack') :
                          current_stack'[i] # Widget(k)
                    /\ ui_out'.closed
                    /\ ui_out'.closed_to = widgets[k].prev
                    /\ (IF ui_out'.make_current
                        THEN current_stack'[Len(current_stack')]
                        ELSE current') = widgets[k].prev ]_vars

(* ======================================================================= *)
(* Further properties of the SMAnimation (anim.py, lines 99-290).          *)
(* ======================================================================= *)

\* the number of times e occurs in the adjacency list es
CountIn(e, es) == Cardinality({ j \in 1 .. Len(es) : es[j] = e })

\* C32: the SMAnimation returned by __call__ has the adjacency lists of the
\* original: the same states have edges, and every edge occurs in the
\* clone's list exactly as often as in the original's, so that it is chosen
\* with the same weight (its share of the list).
C32_CloneAdjacency ==
    call_result = "ok" =>
        /\ DOMAIN copy.edges = DOMAIN edges
        /\ \A s \in DOMAIN edges : \A e \in Candidates(s) :
              /\ CountIn(e, copy.edges[s]) = CountIn(e, edges[s])
              /\ CountIn(e, copy.edges[s]) * Len(edges[s]) =
                    CountIn(e, edges[s]) * Len(copy.edges[s])

\* C33: the SMAnimation returned by __call__ has the initial state, the
\* showold flag and the timebase selection of the original.
C33_CloneConfiguration ==
    call_result = "ok" =>
        /\ copy.initial = initial
        /\ copy.showold = showold
        /\ copy.anim_timebase = anim_timebase

\* C34: once the walk has no edge, every step of a render whose time is not
\* before edge_start keeps edge unset, state and edge_start as they are and
\* requests no redraw; a render whose time is before edge_start restarts
\* the walk at that time.
C34_TerminalStays ==
    [][ (edge = NoEdge /\ edge_start # NoTime) =>
           IF TimeOf(st', at') >= edge_start
           THEN /\ edge' = NoEdge
                /\ state' = state
                /\ edge_start' = edge_start
                /\ redraw' = NoRedraw
           ELSE edge_start' = TimeOf(st', at') ]_vars

\* the walk ended in an earlier render, and a render at a later time found
\* it ended
C34_Witness ==
    /\ Rendered /\ err = NoError
    /\ edge = NoEdge /\ completed > 0
    /\ iters = 0 /\ ~ was_reset
    /\ t > edge_start

\* every edge has a strictly positive delay
AllPositive ==
    \A s \in DOMAIN edges : \A e \in Candidates(s) : e.delay > 0

\* the smallest edge delay
MinDelay ==
    LET ds == { e.delay : e \in UNION { Candidates(s) : s \in DOMAIN edges } }
    IN  CHOOSE d \in ds : \A x \in ds : d <= x

\* the catch-up loop has run no more often than the time since edge_start
\* (as the call found or reset it) holds smallest delays
LoopBound ==
    (AllPositive /\ edges # EmptyDict /\ loop_from # NoTime) =>
        /\ iters < MaxIters
        /\ iters * MinDelay <= t - loop_from

\* C35: if every edge has a strictly positive delay, a render call that has
\* reached the catch-up loop leaves it, after at most
\* (t - edge_start) / (smallest delay) iterations.
C35_LoopTerminates ==
    /\ [] LoopBound
    /\ (AllPositive /\ pc = "loop") ~> (pc = "idle")

\* one call went round the loop more than once, as often as the bound
\* allows when the loop is left before the end of an edge is passed
C35_Witness ==
    /\ Rendered /\ AllPositive /\ edges # EmptyDict
    /\ iters >= 2
    /\ iters * MinDelay <= t - loop_from
    /\ (iters + 1) * MinDelay >= t - loop_from

\* C36: an active edge ends in the current state, an edge picked by the
\* loop starts at the state the machine was in, which is the destination of
\* the edge before it, and an edge picked on the first render or on a reset
\* starts at the initial state.
C36_WalkFollowsGraph ==
    [][ /\ edge' # NoEdge => state' = edge'.new
        /\ (pc = "loop" /\ pc' = "loop" /\ edge' # NoEdge) =>
              /\ edge'.old = state
              /\ edge'.old = edge.new
        /\ (pc = "idle" /\ pc' = "loop" /\ edge' # NoEdge
               /\ NeedsReset(edge_start, TimeOf(st', at'))) =>
              edge'.old = initial ]_vars

\* the loop picked an edge that does not start at the initial state
C36_Witness ==
    /\ pc = "loop" /\ iters >= 1
    /\ edge # NoEdge /\ edge.old # initial
    /\ Cardinality(DOMAIN edges) >= 2

(* ======================================================================= *)
(* Rendering the same frame twice: an SMAnimation, a Grid or a Fixed.      *)
(* ======================================================================= *)

\* one of the three objects is under test
StartRender == SMAInit \/ StartGrid \/ StartFixed

\* children are added and frames are rendered; events and the clearing of
\* children, which end a run of renders, are left to the other
\* specifications
RenderNext ==
    \/ \E s \in Times, a \in Times : RenderBegin(s, a)
    \/ RenderLoop
    \/ RenderStatic
    \/ RenderEdge
    \/ BoxAdd
    \/ \E area \in Areas, tm \in FrameTimes,
          fk \in { 0, 1 }, fin \in { "render", "place" } :
          GridRender(area, tm, fk, fin)
    \/ \E tms \in AddTimes : FixedAdd(FALSE, tms)
    \/ FixedAdd(TRUE, << 2, 1 >>)
    \/ \E area \in BoxAreas, tm \in FixedFrameTimes, it \in InteractTimes,
          fk \in 0 .. 1 :
          FixedRender(area, tm, it, fk, "render")

SpecRender == StartRender /\ [][RenderNext]_vars

\* a render call of the SMAnimation that repeated the arguments of the call
\* before it has returned and left the fields as that call left them
RepeatKeeps ==
    (pc = "idle" /\ before.valid) =>
        /\ edge_start = before.edge_start
        /\ edge_cache = before.edge_cache
        /\ edge = before.edge
        /\ state = before.state

\* the step renders the container for the frame and the area of the render
\* before it, with nothing added or cleared in between
SameRender ==
    /\ r_out.rendered /\ r_out'.rendered
    /\ r_out'.width = r_out.width /\ r_out'.height = r_out.height
    /\ r_out'.frame_time = r_out.frame_time
    /\ r_out'.interact_time = r_out.interact_time

\* C31: a render that repeats the arguments of the render before it (for a
\* container: the same area in the same frame) leaves the mutable state as
\* the first render left it: state, edge, edge_start and edge_cache of an
\* SMAnimation, the children of a Grid and its pending transposition, the
\* start_times and anim_times of a Fixed.
C31_RenderTwice ==
    [][ /\ RepeatKeeps'
        /\ SameRender =>
              /\ children' = children
              /\ transpose' = transpose
              /\ start_times' = start_times
              /\ anim_times' = anim_times ]_vars

\* an SMAnimation on an edge was rendered a second time with the arguments
\* of the render that had moved it onto that edge
C31_Witness ==
    /\ pc = "idle" /\ before.valid /\ err = NoError
    /\ edge # NoEdge /\ edge_cache # NoDisplayable
    /\ completed >= 1 /\ iters = 0

(* ======================================================================= *)
(* Further properties of the Fixed (layout.py, lines 160-236).             *)
(* ======================================================================= *)

\* C37: start_times and anim_times of a Fixed are as long as children, and
\* entry i of each was given in the add call that added children[i].
C37_TimesBelongToChildren ==
    cls = "Fixed" =>
        /\ Len(start_times) = Len(children)
        /\ Len(anim_times) = Len(children)
        /\ \A i \in 1 .. Len(children) : drawn[i].child = children[i].id

\* C38: an entry of start_times or anim_times that was given as a number
\* in the add call still has that value, whatever was rendered since.
C38_ExplicitTimesKept ==
    \A i \in 1 .. Len(drawn) :
       /\ drawn[i].start_time # NoTime =>
             start_times[i] = drawn[i].start_time
       /\ drawn[i].anim_time # NoTime =>
             anim_times[i] = drawn[i].anim_time

(* ======================================================================= *)
(* Further properties of the Motion (layout.py, lines 640-715).            *)
(* ======================================================================= *)

\* C39: once a render of a Motion that does not repeat has requested no
\* redraw, every render at the same or a later time hands the function the
\* same progress and requests no redraw either.
C39_StableAfterNoRedraw ==
    [][ (/\ motion_out.rendered /\ motion_out'.rendered
         /\ ~ motion.repeat
         /\ motion_out.redraw = NoRedraw
         /\ mt' >= mt) =>
           /\ motion_out'.progress = motion_out.progress
           /\ motion_out'.redraw = NoRedraw ]_vars

(* ======================================================================= *)
(* Further properties of the Animation (anim.py, lines 299-349).           *)
(* ======================================================================= *)

\* C40: an Animation has as many delays as images, the last one a year when
\* the argument list is odd; and when some delay is positive every render
\* finds a frame: it raises nothing and shows one of the images.
C40_AlwaysAFrame ==
    /\ Len(animation.delays) = Len(animation.images)
    /\ animation.nargs % 2 = 1 =>
          animation.delays[Len(animation.delays)] = Year
    /\ (/\ animation_out.rendered
        /\ \E j \in 1 .. Len(animation.delays) : animation.delays[j] > 0) =>
          /\ animation_out.err = NoError
          /\ animation_out.index \in 1 .. Len(animation.images)
          /\ animation_out.shown = animation.images[animation_out.index]

\* an even argument list with a zero delay in front: the scan passed the
\* frame without duration and stopped at the last one
C40_Witness ==
    /\ animation_out.rendered /\ animation_out.err = NoError
    /\ animation.nargs % 2 = 0 /\ animation.nargs >= 4
    /\ animation.delays[1] = 0
    /\ animation_out.index = Len(animation.images)
    /\ animT > 0

=============================================================================
